---- MODULE Spec2Model ----
(***************************************************************************)
(* Composite expansion of sharispe/mujoco: mjXReader::OneComposite reads a *)
(* <composite> element into an mjCComposite, calls SetDefault, reads the   *)
(* sub-elements and calls mjCComposite::Make, which validates the          *)
(* parameters and dispatches to MakeParticle / MakeGrid / MakeRope /       *)
(* MakeCable / MakeBox; these add bodies, joints, geoms, sites, tendons,   *)
(* equalities, excludes, texts and skins to the model.                     *)
(*                                                                         *)
(* Numbers: lengths (spacing, geom size, offset) are integers; positions   *)
(* are stored doubled (pos2 = 2*pos) because the code places lattice       *)
(* points at spacing*(ix - 0.5*count).  Names are strings built exactly as *)
(* the sprintf formats build them; prefixes are short enough that no       *)
(* formatted name reaches the 100-character buffers.                       *)
(***************************************************************************)
EXTENDS Integers, Sequences, FiniteSets, TLC

VARIABLES
  pc,       \* position inside OneComposite: "new", "top", "default", "sub",
            \* "done" (Make has returned), "thrown" (the reader threw before Make),
            \* "abort" (mju_error has ended the process)
  comp,     \* the mjCComposite object (record of its fields)
  model,    \* the mjCModel entities (record of sequences, insertion order)
  res,      \* what Make returned (TRUE/FALSE); "none" before it returns
  error,    \* the error text written by comperr / thrown by the reader
  warning   \* TRUE when mju_warning was called

vars == <<pc, comp, model, res, error, warning>>

-----------------------------------------------------------------------------
(* Bounds of the model                                                     *)

MaxCount == 3      \* largest lattice count per axis
MaxSpacing == 3    \* largest spacing value read

-----------------------------------------------------------------------------
(* Generic helpers                                                         *)

Max(a, b) == IF a > b THEN a ELSE b
Min(a, b) == IF a < b THEN a ELSE b

RECURSIVE Flatten(_)
Flatten(ss) == IF ss = <<>> THEN <<>> ELSE Head(ss) \o Flatten(Tail(ss))

\* the sequence F(0), F(1), ..., F(n-1) of a C loop "for (k=0; k<n; k++)"
Loop(n, F(_)) == [k \in 1..Max(n, 0) |-> F(k - 1)]

Range(s) == {s[i] : i \in 1..Len(s)}

\* "%d"
Dec(n) == ToString(n)

\* mju_max
mju_max(a, b) == Max(a, b)

\* mjuu_dot3
mjuu_dot3(a, b) == a[1]*b[1] + a[2]*b[2] + a[3]*b[3]

-----------------------------------------------------------------------------
(* sscanf(txt, "%d", &ox): skip white space, optional sign, decimal digits; *)
(* the conversion fails when no digit follows.                             *)

DigitChars == {"0", "1", "2", "3", "4", "5", "6", "7", "8", "9"}

DigitVal(ch) ==
  CASE ch = "0" -> 0 [] ch = "1" -> 1 [] ch = "2" -> 2 [] ch = "3" -> 3
    [] ch = "4" -> 4 [] ch = "5" -> 5 [] ch = "6" -> 6 [] ch = "7" -> 7
    [] ch = "8" -> 8 [] ch = "9" -> 9

CharAt(s, i) == SubSeq(s, i, i)

RECURSIVE SkipSpace(_, _)
SkipSpace(s, i) ==
  IF i <= Len(s) /\ CharAt(s, i) = " " THEN SkipSpace(s, i + 1) ELSE i

RECURSIVE ScanDigits(_, _, _, _)
\* [n |-> number of digits consumed, val |-> their value]
ScanDigits(s, i, n, acc) ==
  IF i <= Len(s) /\ CharAt(s, i) \in DigitChars
  THEN ScanDigits(s, i + 1, n + 1, 10*acc + DigitVal(CharAt(s, i)))
  ELSE [n |-> n, val |-> acc]

\* [ok |-> sscanf returned 1, val |-> the integer stored]
sscanf_d(s) ==
  LET i == SkipSpace(s, 1)
      signed == i <= Len(s) /\ CharAt(s, i) \in {"-", "+"}
      neg == signed /\ CharAt(s, i) = "-"
      d == ScanDigits(s, IF signed THEN i + 1 ELSE i, 0, 0)
  IN  [ok |-> d.n > 0, val |-> IF neg THEN 0 - d.val ELSE d.val]

\* std::string::substr(pos) and substr(0, n)
SubstrFrom(s, pos) == SubSeq(s, pos + 1, Len(s))
SubstrTo(s, n) == SubSeq(s, 1, Min(n, Len(s)))

-----------------------------------------------------------------------------
(* Enumerations                                                            *)

CompTypes == {"particle", "grid", "rope", "loop", "cable", "cloth",
              "box", "cylinder", "ellipsoid"}

\* mjtCompKind: the kinds of default bundles
CompKinds == {"joint", "twist", "stretch", "tendon", "shear", "particle"}

GeomTypes == {"sphere", "capsule", "ellipsoid", "cylinder", "box"}

-----------------------------------------------------------------------------
(* Error texts                                                             *)

\* messages of comperr and mju_error in user_composite.cc
Err ==
  [GeomType |->   \* line 226
     "Composite geom type must be sphere, capsule or ellipsoid",
   Pin |->   \* line 231
     "Pin coordinate number of must be multiple of 2",
   Count |->   \* line 237
     "Positive counts expected in composite",
   Spacing |->   \* lines 245-246
     "Spacing must be larger than geometry size",
   Size |->   \* line 252
     "Positive spacing or length expected in composite",
   CableSpacing |->   \* line 257
     "Spacing is not supported by cable composite",
   VertexCount |->   \* line 263
     "Either vertex or count can be specified, not both",
   Singleton |->   \* line 277
     "Singleton counts must come last",
   Subgrid |->   \* line 285
     "At least 3x3 required for skin subgrid",
   Rope |->   \* lines 298-300
     "The rope composite type is deprecated. Please use cable instead.",
   Cloth |->   \* lines 313-315
     "The cloth composite type is deprecated. Please use shell instead.",
   GridDim |->   \* line 576
     "Grid can only be 1D or 2D",
   ShearDim |->   \* line 581
     "Shear requires 2D grid",
   SkinDim |->   \* line 586
     "Skin requires 2D grid",
   CableDim |->   \* line 690
     "Cable must be one-dimensional",
   CableGeom |->   \* line 697
     "Cable geom type must be sphere, capsule or box",
   RopeDim |->   \* line 889
     "Rope must be one-dimensional",
   RootPrefix |->   \* lines 893-898
     " must be the beginning of root body name",
   RootCoord |->   \* line 905
     "Root body name must contain X coordinate",
   RootRange |->   \* line 908
     "Root body coordinate out of range",
   BoxDim |->   \* line 1093
     "Box and ellipsoid must be three-dimensional",
   MultiJoint |->   \* line 115
     "Only particles are allowed to have multiple joints",
   Shape |->   \* lines 722-725
     "Invalid composite shape",
   Thickness |->   \* line 414
     "Invalid thickness attribute",
   PluginFace |->   \* line 497
     "Face attribute already exists in plugin"]

\* messages of mjXError in xml_native_reader.cc
XErr ==
  [CurveMax |->   \* lines 2265-2267
     "The curve array must have a maximum of 3 components",
   PluginConfig |->   \* lines 71-74
     "plugin configuration attributes cannot be used in an element that references a predefined plugin instance"]

-----------------------------------------------------------------------------
(* State after construction: mjCComposite::mjCComposite, and a model that  *)
(* holds the parent body the composite element is nested in.               *)

\* names the parent body of the composite element may carry
RootNames ==
  {"world"} \cup
  {p \o "B" \o s : p \in {"", "a"},
                   s \in {"0", "1", "2", "01", "0x", "2_0", "x", "", "-1", "7", " 1"}}

\* defjoint[k] is the vector of joint templates of kind k, of which the group
\* and the limited flag are kept; tendonlimited[k] is the limited flag of
\* def[k].tendon.  xml is not a field of mjCComposite: it holds the nodes
\* the reader has consumed for this composite (elem and its joint and tendon
\* sub-nodes), as a history of the input.
NewComposite ==
  [prefix |-> "", type |-> "particle", count |-> <<1, 1, 1>>, spacing |-> 0,
   offset |-> <<0, 0, 0>>, pin |-> <<>>, size |-> <<1, 0, 0>>,
   plugin_instance |-> FALSE, config_attribs |-> [face |-> "", thickness |-> ""],
   curve |-> <<"0", "0", "0">>,
   initial |-> "ball", skin |-> FALSE, skinsubgrid |-> 0,
   add |-> [k \in CompKinds |-> FALSE], dim |-> 0,
   uservert |-> <<>>, userface |-> <<>>, username |-> <<>>,
   defjoint |-> [k \in CompKinds |-> <<>>],
   tendonlimited |-> [k \in CompKinds |-> "auto"],
   geomtype |-> "sphere", geomsize |-> <<0, 0, 0>>,
   geomgroup |-> 0, solrefsmooth |-> 2,
   xml |-> [elem |-> <<>>, joint |-> <<>>, tendon |-> <<>>]]

NewModel(root) ==
  [bodies |-> <<[name |-> root, parent |-> 0]>>,
   joints |-> <<>>, geoms |-> <<>>, sites |-> <<>>, tendons |-> <<>>,
   equalities |-> <<>>, excludes |-> <<>>, texts |-> <<>>, skins |-> <<>>]

Init ==
  /\ pc = "new"
  /\ comp = NewComposite
  /\ \E root \in RootNames : model = NewModel(root)
  /\ res = "none"
  /\ error = ""
  /\ warning = FALSE

-----------------------------------------------------------------------------
(* The documents enumerated: attribute values of the composite element     *)
(* (read before SetDefault) and of its sub-elements (read after it).       *)

Prefixes == {"", "a"}

Counts ==
  {<<a, b, c>> : a \in 1..MaxCount, b \in 1..MaxCount, c \in 1..MaxCount}
  \cup {<<0, 1, 1>>, <<1, 0, 1>>, <<2, 2, 0>>}

LineCounts == {<<n, 1, 1>> : n \in 1..MaxCount} \cup {<<2, 2, 1>>}

\* a vertex attribute of n numbers (stored doubled, like every position)
UserVert(n) == [i \in 1..n |-> 2 * i]

\* skin sub-element: absent, present, present with subgrid="1"
SkinOpts == {<<FALSE, 0>>, <<TRUE, 0>>, <<TRUE, 1>>}

\* plugin sub-element: whether it is there, whether it names a predefined
\* instance, and its config values for the keys face and thickness ("": none)
PluginElem(present, instance, face, thickness) ==
  [present |-> present, instance |-> instance, face |-> face, thickness |-> thickness]

NoPlugin == PluginElem(FALSE, "", "", "")

PluginElems ==
  {PluginElem(TRUE, "", f, t) : f \in {"", "0 1 2"}, t \in {"", "1", "x"}}
  \cup {PluginElem(TRUE, "inst", "", ""), PluginElem(TRUE, "inst", "", "1")}

Top(prefix, type, count, spacing, offset, uservert, userface, initial, size, skinopt) ==
  [prefix |-> prefix, type |-> type, count |-> count, spacing |-> spacing,
   offset |-> offset, uservert |-> uservert, userface |-> userface,
   initial |-> initial, size |-> size, skin |-> skinopt[1],
   skinsubgrid |-> skinopt[2], curves |-> "s 0 0", text |-> "1",
   plugin |-> NoPlugin]

\* the same element with the given plugin sub-element
WithPlugin(top, plugin) == [top EXCEPT !.plugin = plugin]

\* the same element with the given curve attribute ("": no attribute) and
\* the given text of the last numeric attribute read before the curve
WithCurve(top, curves, text) == [top EXCEPT !.curves = curves, !.text = text]

\* curve attributes; without one, and without size and vertex, the last text
\* read may be the "0" of an earlier attribute
CurveTexts ==
  ({"", "s", "0 s", "x", "s ", " cos(s)  sin(s) 0", "s 0 0 0", "s 0 0 "} \X {"1"})
  \cup {<<"", "0">>}

TopParticle ==
  {Top(p, "particle", c, s, o[1], <<>>, <<>>, "ball", <<1, 0, 0>>, o[2]) :
     p \in Prefixes, c \in Counts, s \in 1..MaxSpacing,
     o \in ({<<0, 0, 0>>, <<1, 0, 2>>} \X {<<FALSE, 0>>})
           \cup ({<<0, 0, 0>>} \X {<<TRUE, 0>>, <<TRUE, 1>>})}
  \cup
  {Top("a", "particle", c, 0, <<0, 0, 0>>, UserVert(v[1]), v[2], "ball",
       <<1, 0, 0>>, <<k, 0>>) :
     c \in {<<1, 1, 1>>, <<2, 1, 1>>, <<1, 1, 2>>},
     v \in {<<2, <<>> >>, <<3, <<>> >>, <<9, <<>> >>, <<9, <<1, 2, 3>> >>},
     k \in BOOLEAN}
  \cup
  {Top("a", "particle", c, MaxSpacing, <<0, 0, 0>>, <<>>, <<1, 2, 3>>, "ball",
       <<1, 0, 0>>, <<k, 0>>) :
     c \in {d \in Counts : d[1] * d[2] * d[3] >= 3}, k \in BOOLEAN}

TopPlugin ==
  {WithPlugin(Top("a", "particle", c, MaxSpacing, <<0, 0, 0>>, <<>>, <<>>, "ball",
                  <<1, 0, 0>>, <<FALSE, 0>>), g) :
     c \in {<<1, 1, 1>>, <<2, 1, 1>>, <<2, 2, 1>>, <<2, 2, 2>>}, g \in PluginElems}

TopGrid ==
  {Top(p, "grid", c, s, <<0, 0, 0>>, <<>>, <<>>, "ball", <<1, 0, 0>>, k) :
     p \in Prefixes, c \in Counts, s \in 1..MaxSpacing, k \in SkinOpts}
  \cup
  {Top("a", "grid", <<2, 2, 1>>, MaxSpacing, <<0, 0, 0>>, <<>>, <<>>, "ball",
       <<0, 0, 0>>, <<FALSE, 0>>)}

TopCable ==
  {Top(p, "cable", c, 0, <<0, 0, 0>>, <<>>, <<>>, i, <<1, 0, 0>>, k) :
     p \in Prefixes, c \in Counts, i \in {"ball", "free", "none"},
     k \in {<<FALSE, 0>>, <<TRUE, 1>>}}
  \cup
  {Top("a", "cable", <<MaxCount + 1, 1, 1>>, 0, <<0, 0, 0>>, <<>>, <<>>, i,
       <<1, 0, 0>>, <<FALSE, 0>>) : i \in {"ball", "free", "none"}}
  \cup
  {Top("a", "cable", c, s, <<0, 0, 0>>, UserVert(n), <<>>, "ball", z, <<FALSE, 0>>) :
     c \in {<<1, 1, 1>>, <<2, 1, 1>>}, s \in {0, 1}, n \in {0, 2, 3, 6, 9},
     z \in {<<1, 0, 0>>, <<0, 0, 0>>}}
  \cup
  {WithCurve(Top("a", "cable", c, 0, <<0, 0, 0>>, <<>>, <<>>, "ball", <<1, 0, 0>>,
                 <<FALSE, 0>>), v[1], v[2]) :
     c \in {<<1, 1, 1>>, <<3, 1, 1>>}, v \in CurveTexts}
  \cup
  {WithCurve(Top("a", "cable", <<1, 1, 1>>, 0, <<0, 0, 0>>, UserVert(6), <<>>, "ball",
                 <<1, 0, 0>>, <<FALSE, 0>>), v, "2 4 6 8 10 12") :
     v \in {"", "x", "s 0 0 0"}}

TopLegacy ==
  {Top(p, t, c, 1, <<0, 0, 0>>, <<>>, <<>>, "ball", <<1, 0, 0>>, <<FALSE, 0>>) :
     p \in Prefixes, t \in {"rope", "loop", "cloth"}, c \in Counts}

TopBox ==
  {Top(p, t, c, MaxSpacing, <<0, 0, 0>>, <<>>, <<>>, "ball", <<1, 0, 0>>, <<k, 0>>) :
     p \in Prefixes, t \in {"box", "cylinder", "ellipsoid"}, c \in Counts,
     k \in BOOLEAN}

TopRooted ==
  {Top(p, t, c, 1, <<0, 0, 0>>, <<>>, <<>>, "ball", <<1, 0, 0>>, <<FALSE, 0>>) :
     p \in Prefixes, t \in {"rope", "loop"}, c \in LineCounts}

\* the composite elements enumerated under a parent body named root
TopInputs(root) ==
  IF root = "world"
  THEN TopParticle \cup TopPlugin \cup TopGrid \cup TopCable \cup TopLegacy \cup TopBox
  ELSE TopRooted

\* geom sub-element: type and size (absent: the default sphere of size 0)
GeomElem(t) ==
  CASE t = "none" -> [type |-> "sphere", size |-> <<0, 0, 0>>]
    [] t = "sphere" -> [type |-> "sphere", size |-> <<1, 1, 2>>]
    [] t = "capsule" -> [type |-> "capsule", size |-> <<2, 1, 0>>]
    [] t = "ellipsoid" -> [type |-> "ellipsoid", size |-> <<1, 2, 1>>]
    [] t = "cylinder" -> [type |-> "cylinder", size |-> <<2, 1, 0>>]
    [] t = "box" -> [type |-> "box", size |-> <<1, 2, 1>>]

PinLists == {<<>>, <<0, 0>>, <<1, 0>>, <<0, 1, 1, 1>>, <<5, 5>>}

\* joints and tendons are given by their kinds; the i-th joint sub-node has
\* group="i-1"
Sub(g, joints, tendons, pin) ==
  [geom |-> GeomElem(g),
   joints |-> [i \in 1..Len(joints) |-> [kind |-> joints[i], group |-> i - 1]],
   tendons |-> [i \in 1..Len(tendons) |-> [kind |-> tendons[i]]],
   pin |-> pin]

\* the same sub-elements with limited="v" on every joint and tendon sub-node
WithLimited(sub, v) ==
  [sub EXCEPT
     !.joints = [i \in 1..Len(@) |->
                   [kind |-> @[i].kind, group |-> @[i].group, limited |-> v]],
     !.tendons = [i \in 1..Len(@) |-> [kind |-> @[i].kind, limited |-> v]]]

\* the sub-elements enumerated for a composite of the given type
SubInputs(type) ==
  CASE type = "particle" ->
         {Sub(g, j, <<>>, <<>>) :
            g \in {"sphere", "box"},
            j \in {<<>>, <<"particle">>, <<"particle", "particle">>, <<"joint">>}}
         \cup {Sub("sphere", j, <<>>, <<>>) :
                 j \in {<<"joint", "particle">>, <<"joint", "joint", "particle">>,
                        <<"particle", "twist", "particle">>}}
         \cup {WithLimited(Sub("sphere", <<"particle">>, <<>>, <<>>), v) :
                 v \in {"true", "false"}}
    [] type = "grid" ->
         {Sub("sphere", <<>>, t, p) :
            t \in {<<>>, <<"shear">>, <<"tendon", "shear">>}, p \in PinLists}
         \cup {Sub(g, <<>>, <<>>, <<>>) : g \in {"capsule", "box", "none"}}
         \cup {Sub("sphere", <<"joint", "joint">>, <<>>, <<>>)}
         \cup {WithLimited(Sub("sphere", <<"joint">>, <<"tendon">>, <<>>), v) :
                 v \in {"true", "false"}}
    [] type = "cable" ->
         {Sub(g, <<>>, <<>>, <<>>) : g \in GeomTypes}
    [] type \in {"rope", "loop", "cloth"} ->
         {Sub(g, j, <<>>, <<>>) :
            g \in {"sphere", "box"},
            j \in {<<>>, <<"twist">>, <<"stretch">>, <<"twist", "stretch">>}}
    [] OTHER ->
         {Sub(g, <<>>, <<>>, <<>>) : g \in {"sphere", "capsule", "box"}}

-----------------------------------------------------------------------------
(* OneComposite, first part: the attributes of the composite element and   *)
(* its skin sub-element.                                                   *)

\* composite rope shape: shape_map, looked up by FindKey (first match wins,
\* "invalid" when no entry has the key)
shape_map == <<"s", "cos(s)", "sin(s)", "0">>

FindKey(map, key) ==
  IF \E i \in 1..Len(map) : map[i] = key THEN key ELSE "invalid"

RECURSIVE TokenEnd(_, _)
\* position after the characters of the word that starts at i
TokenEnd(s, i) ==
  IF i <= Len(s) /\ CharAt(s, i) # " " THEN TokenEnd(s, i + 1) ELSE i

\* iss >> text at position i: white space is skipped; at the end of the
\* stream the extraction fails and leaves text alone; eof is set when the
\* end was reached
IssExtract(s, i, text) ==
  LET j == SkipSpace(s, i)
      k == TokenEnd(s, j)
  IN  IF j > Len(s) THEN [text |-> text, pos |-> j, eof |-> TRUE]
      ELSE [text |-> SubSeq(s, j, k - 1), pos |-> k, eof |-> k > Len(s)]

RECURSIVE ProcessCurve(_, _, _, _, _)
\* process curve string: [curve |-> comp.curve, ok |-> nothing was thrown]
ProcessCurve(curve, s, pos, text, i) ==
  LET r == IssExtract(s, pos, text)
  IN  IF i > 2 THEN [curve |-> curve, ok |-> FALSE]
      ELSE LET curve1 == [curve EXCEPT ![i + 1] = FindKey(shape_map, r.text)]
           IN  IF r.eof THEN [curve |-> curve1, ok |-> TRUE]
               ELSE ProcessCurve(curve1, s, r.pos, r.text, i + 1)

\* plugin: an implicit instance is created unless the element names one;
\* ReadPluginConfigs throws when configs are given for a named instance
ReadPlugin(c, plugin) ==
  IF ~plugin.present THEN [c |-> c, ok |-> TRUE]
  ELSE IF plugin.instance = ""
  THEN [c |-> [c EXCEPT !.plugin_instance = TRUE,
                        !.config_attribs = [face |-> plugin.face,
                                            thickness |-> plugin.thickness]],
        ok |-> TRUE]
  ELSE [c |-> c, ok |-> plugin.face = "" /\ plugin.thickness = ""]

\* the attributes of one composite element in, read into c;
\* [c, ok, error]: the composite as far as it was read, and the reader's throw
ReadTopOf(c, in) ==
  LET c0 == [c EXCEPT !.prefix = in.prefix, !.type = in.type,
                      !.count = in.count, !.spacing = in.spacing,
                      !.offset = in.offset, !.xml.elem = in]
      rp == ReadPlugin(c0, in.plugin)
      pcv == ProcessCurve(c.curve, in.curves, 1, in.text, 0)
      c1 == [rp.c EXCEPT !.uservert = in.uservert,
                         !.userface = in.userface, !.initial = in.initial,
                         !.size = in.size, !.curve = pcv.curve]
  IN  IF ~rp.ok THEN [c |-> c0, ok |-> FALSE, error |-> XErr.PluginConfig]
      ELSE IF pcv.ok
      THEN [c |-> [c1 EXCEPT !.skin = in.skin, !.skinsubgrid = in.skinsubgrid],
            ok |-> TRUE, error |-> ""]
      ELSE [c |-> c1, ok |-> FALSE, error |-> XErr.CurveMax]

ReadTop ==
  /\ pc = "new"
  /\ \E in \in TopInputs(model.bodies[1].name) :
       LET rt == ReadTopOf(comp, in)
       IN  /\ comp' = rt.c
           /\ IF rt.ok
              THEN /\ pc' = "top"
                   /\ UNCHANGED <<res, error>>
              ELSE /\ pc' = "thrown"
                   /\ res' = FALSE
                   /\ error' = rt.error
  /\ UNCHANGED <<model, warning>>

-----------------------------------------------------------------------------
(* mjCComposite::AddDefaultJoint: one more default joint per kind; refused *)
(* for a non-particle composite that already has one.                      *)

AddDefaultJointOk(c) ==
  \/ c.type = "particle"
  \/ c.defjoint["joint"] = <<>>

\* "mjCDef jnt; jnt.joint.spec.group = 3;"
JointDefault == [group |-> 3, limited |-> "auto"]

AddDefaultJoint(c) ==
  IF AddDefaultJointOk(c)
  THEN [c EXCEPT !.defjoint = [k \in CompKinds |-> Append(c.defjoint[k], JointDefault)]]
  ELSE c

(* mjCComposite::SetDefault                                                *)
tmpdim(c) == Cardinality({i \in 1..3 : c.count[i] > 1})

GroupVisible(c) ==
  \/ ~c.skin
  \/ c.type \in {"particle", "rope", "loop", "cable"}
  \/ (c.type = "grid" /\ tmpdim(c) = 1)

SetDefaultOf(c) ==
  LET c1 == AddDefaultJoint(c)
  IN  [c1 EXCEPT !.geomgroup = IF GroupVisible(c) THEN 0 ELSE 3,
                 !.solrefsmooth =
                    IF c.type = "loop" THEN 1
                    ELSE IF c.type \in {"box", "cylinder", "ellipsoid"} THEN 2
                    ELSE c.solrefsmooth]

SetDefault ==
  /\ pc = "top"
  /\ comp' = SetDefaultOf(comp)
  /\ pc' = "default"
  /\ UNCHANGED <<model, res, error, warning>>

-----------------------------------------------------------------------------
(* OneComposite, second part: geom, joint, tendon and pin sub-elements.    *)

\* MapValue, ReadAttrInt: the value of the attribute when the node has it,
\* else what the target held
Attr(node, name, old) == IF name \in DOMAIN node THEN node[name] ELSE old

\* one joint sub-node ejnt, written into the last template of its kind
ReadJoint(c, ejnt) ==
  [c EXCEPT !.add[ejnt.kind] = TRUE,
            !.defjoint[ejnt.kind][Len(c.defjoint[ejnt.kind])] =
               [group |-> Attr(ejnt, "group", @.group),
                limited |-> Attr(c.xml.elem, "limited", @.limited)],
            !.xml.joint = Append(@, ejnt)]

RECURSIVE ReadJoints(_, _)
\* [c |-> composite after the joint elements, ok |-> no error was thrown]
ReadJoints(c, ejnts) ==
  IF ejnts = <<>> THEN [c |-> c, ok |-> TRUE]
  ELSE LET ejnt == Head(ejnts)
           kind == ejnt.kind
       IN  IF c.add[kind] /\ ~AddDefaultJointOk(c)
           THEN [c |-> c, ok |-> FALSE]
           ELSE ReadJoints(ReadJoint(IF c.add[kind] THEN AddDefaultJoint(c) ELSE c,
                                     ejnt),
                           Tail(ejnts))

RECURSIVE ReadTendons(_, _)
ReadTendons(c, etens) ==
  IF etens = <<>> THEN c
  ELSE ReadTendons(
         [c EXCEPT !.add[Head(etens).kind] = TRUE,
                   !.tendonlimited[Head(etens).kind] =
                      Attr(c.xml.elem, "limited", @),
                   !.xml.tendon = Append(@, Head(etens))],
         Tail(etens))

ReadGeom(c, g) == [c EXCEPT !.geomtype = g.type, !.geomsize = g.size]

ReadPins(c, pin) == [c EXCEPT !.pin = c.pin \o pin]

\* variant: the sub-elements are read with the attributes, before SetDefault
ReadSub_BeforeDefault ==
  /\ pc = "top"
  /\ \E in \in SubInputs(comp.type) :
       comp' = ReadPins(ReadTendons(ReadGeom(comp, in.geom), in.tendons), in.pin)
  /\ UNCHANGED <<pc, model, res, error, warning>>

ReadSub ==
  /\ pc = "default"
  /\ \E in \in SubInputs(comp.type) :
       LET rj == ReadJoints(ReadGeom(comp, in.geom), in.joints)
       IN  IF rj.ok
           THEN /\ comp' = ReadPins(ReadTendons(rj.c, in.tendons), in.pin)
                /\ pc' = "sub"
                /\ UNCHANGED <<res, error>>
           ELSE /\ comp' = rj.c
                /\ pc' = "thrown"
                /\ res' = FALSE
                /\ error' = Err.MultiJoint
  /\ UNCHANGED <<model, warning>>

-----------------------------------------------------------------------------
(* Results of Make and of the builders: what was returned, the error text, *)
(* the composite (count, dim, uservert, ... are written by Make), the      *)
(* model, and whether a warning was emitted.                               *)

Out(r, e, c, m, w) ==
  [res |-> r, error |-> e, comp |-> c, model |-> m, warning |-> w, fatal |-> FALSE]

\* mju_error: the process ends inside Make
mju_error(msg, c, m) == [Out(FALSE, msg, c, m, FALSE) EXCEPT !.fatal = TRUE]

\* comperr: copy the message, return false
comperr(msg, c, m) == Out(FALSE, msg, c, m, FALSE)

\* index of the parent body handed to Make
pbody == 1

-----------------------------------------------------------------------------
(* Skins.  A skin is modelled by its name and its bones' body names.       *)

Skin(c, bones) == [name |-> c.prefix \o "Skin", bodyname |-> bones]

AddSkin(m, sk) == [m EXCEPT !.skins = Append(m.skins, sk)]

\* MakeClothBones / MakeClothBonesSubgrid: body name of bone (ix, iy)
ClothBoneName(c, ix, iy) ==
  IF c.type = "grid"
  THEN c.prefix \o "B" \o Dec(ix) \o "_" \o Dec(iy)
  ELSE c.prefix \o "B" \o Dec(ix) \o "_" \o Dec(iy) \o "_0"

MakeClothBones(c) ==
  Loop(c.count[1] * c.count[2],
       LAMBDA k : ClothBoneName(c, k \div c.count[2], k % c.count[2]))

\* MakeCableBones / MakeCableBonesSubgrid: body name of bone (ix, iy)
CableBoneName(c, ix) ==
  IF ix = 0 THEN c.prefix \o "B_first"
  ELSE IF ix >= c.count[1] - 2 THEN c.prefix \o "B_last"
  ELSE c.prefix \o "B_" \o Dec(ix)

MakeCableBones(c) ==
  Loop(c.count[1] * c.count[2], LAMBDA k : CableBoneName(c, k \div c.count[2]))

\* MakeSkin2, the branch that copies the user mesh: two bones per vertex
MakeSkin2Mesh(c) ==
  LET nvert == Len(c.uservert) \div 3
  IN  Loop(2 * nvert, LAMBDA k : c.prefix \o "B" \o Dec(k % nvert))

Bones2(c) ==
  IF c.type \in {"particle", "grid"} THEN MakeClothBones(c)
  ELSE IF c.type = "cable" THEN MakeCableBones(c)
  ELSE <<>>

\* variant: both sides are wound the same way
MakeSkin2Faces_SameWinding(c) ==
  LET N == c.count[1] * c.count[2]
      c1 == c.count[2]
      last == (c.count[1] - 1) * c1
      sides ==
        Flatten(Loop(2 * N, LAMBDA k :
          LET i == k \div N
              ix == (k % N) \div c1
              iy == k % c1
              i0 == IF i = 0 THEN 1 ELSE 0
              i1 == IF FALSE THEN 1 ELSE 0
          IN  IF ix < c.count[1] - 1 /\ iy < c1 - 1
              THEN << <<i*N + ix*c1 + iy, i*N + (ix+1)*c1 + iy + i1,
                        i*N + (ix+1)*c1 + iy + i0>>,
                      <<i*N + ix*c1 + iy, i*N + (ix+i0)*c1 + iy + 1,
                        i*N + (ix+i1)*c1 + iy + 1>> >>
              ELSE <<>>))
      xfirst ==
        Flatten(Loop(c.count[1] - 1, LAMBDA ix :
          << <<ix*c1, N + (ix+1)*c1, (ix+1)*c1>>,
             <<ix*c1, N + ix*c1, N + (ix+1)*c1>> >>))
      xlast ==
        Flatten(Loop(c.count[1] - 1, LAMBDA ix :
          << <<ix*c1 + c1 - 1, (ix+1)*c1 + c1 - 1, N + (ix+1)*c1 + c1 - 1>>,
             <<ix*c1 + c1 - 1, N + (ix+1)*c1 + c1 - 1, N + ix*c1 + c1 - 1>> >>))
      yfirst ==
        Flatten(Loop(c1 - 1, LAMBDA iy :
          << <<iy, iy + 1, N + iy + 1>>, <<iy, N + iy + 1, N + iy>> >>))
      ylast ==
        Flatten(Loop(c1 - 1, LAMBDA iy :
          << <<iy + last, N + iy + 1 + last, iy + 1 + last>>,
             <<iy + last, N + iy + last, N + iy + 1 + last>> >>))
  IN  sides \o xfirst \o xlast \o yfirst \o ylast

\* MakeSkin2, the lattice mesh: the triangles (vertex ids) of the two sides,
\* then the thin triangles that close the four borders
MakeSkin2Faces(c) ==
  LET N == c.count[1] * c.count[2]
      c1 == c.count[2]
      last == (c.count[1] - 1) * c1
      sides ==
        Flatten(Loop(2 * N, LAMBDA k :
          LET i == k \div N
              ix == (k % N) \div c1
              iy == k % c1
              i0 == IF i = 0 THEN 1 ELSE 0
              i1 == IF i = 1 THEN 1 ELSE 0
          IN  IF ix < c.count[1] - 1 /\ iy < c1 - 1
              THEN << <<i*N + ix*c1 + iy, i*N + (ix+1)*c1 + iy + i1,
                        i*N + (ix+1)*c1 + iy + i0>>,
                      <<i*N + ix*c1 + iy, i*N + (ix+i0)*c1 + iy + 1,
                        i*N + (ix+i1)*c1 + iy + 1>> >>
              ELSE <<>>))
      xfirst ==
        Flatten(Loop(c.count[1] - 1, LAMBDA ix :
          << <<ix*c1, N + (ix+1)*c1, (ix+1)*c1>>,
             <<ix*c1, N + ix*c1, N + (ix+1)*c1>> >>))
      xlast ==
        Flatten(Loop(c.count[1] - 1, LAMBDA ix :
          << <<ix*c1 + c1 - 1, (ix+1)*c1 + c1 - 1, N + (ix+1)*c1 + c1 - 1>>,
             <<ix*c1 + c1 - 1, N + (ix+1)*c1 + c1 - 1, N + ix*c1 + c1 - 1>> >>))
      yfirst ==
        Flatten(Loop(c1 - 1, LAMBDA iy :
          << <<iy, iy + 1, N + iy + 1>>, <<iy, N + iy + 1, N + iy>> >>))
      ylast ==
        Flatten(Loop(c1 - 1, LAMBDA iy :
          << <<iy + last, N + iy + 1 + last, iy + 1 + last>>,
             <<iy + last, N + iy + last, N + iy + 1 + last>> >>))
  IN  sides \o xfirst \o xlast \o yfirst \o ylast

\* the lattice skin: 3 coordinates are pushed per (side, ix, iy)
MakeSkin2Lattice(c) ==
  [name |-> c.prefix \o "Skin", bodyname |-> Bones2(c),
   nvert |-> 2 * c.count[1] * c.count[2], face |-> MakeSkin2Faces(c)]

MakeSkin2(c, m) ==
  IF c.type = "particle" /\ c.username = <<>>
  THEN AddSkin(m, Skin(c, MakeSkin2Mesh(c)))
  ELSE AddSkin(m, MakeSkin2Lattice(c))

MakeSkin2Subgrid(c, m) == AddSkin(m, Skin(c, Bones2(c)))

\* the six face formats of MakeSkin3: body name of face point (i0, i1)
FaceName(c, face, i0, i1) ==
  LET p == c.prefix \o "B"
  IN  CASE face = "z0" -> p \o Dec(i0) \o "_" \o Dec(i1) \o "_0"
        [] face = "z1" -> p \o Dec(i0) \o "_" \o Dec(i1) \o "_" \o Dec(c.count[3] - 1)
        [] face = "y0" -> p \o Dec(i0) \o "_0_" \o Dec(i1)
        [] face = "y1" -> p \o Dec(i0) \o "_" \o Dec(c.count[2] - 1) \o "_" \o Dec(i1)
        [] face = "x0" -> p \o "0_" \o Dec(i0) \o "_" \o Dec(i1)
        [] face = "x1" -> p \o Dec(c.count[1] - 1) \o "_" \o Dec(i0) \o "_" \o Dec(i1)

\* MakeSkin3Box and MakeSkin3Smooth: one bone per point of the face
MakeSkin3Face(c, c0, c1, face) ==
  Loop(c0 * c1, LAMBDA k : FaceName(c, face, k \div c1, k % c1))

\* the keys of vmap in the order their vertices are added: the points with
\* xedge or yedge, for the ellipsoid also those with zedge
VMapNames(c) ==
  LET pts == Loop(c.count[1] * c.count[2] * c.count[3], LAMBDA k :
               <<k \div (c.count[2] * c.count[3]),
                 (k \div c.count[3]) % c.count[2], k % c.count[3]>>)
      edge(q, i) == q[i] = 0 \/ q[i] = c.count[i] - 1
      kept == SelectSeq(pts, LAMBDA q :
                edge(q, 1) \/ edge(q, 2) \/ (c.type # "cylinder" /\ edge(q, 3)))
  IN  [k \in 1..Len(kept) |->
         c.prefix \o "B" \o Dec(kept[k][1]) \o "_" \o Dec(kept[k][2])
                  \o "_" \o Dec(kept[k][3])]

\* vmap.find(txt)->second
VMapFind(vmap, txt) == (CHOOSE k \in 1..Len(vmap) : vmap[k] = txt) - 1

\* MakeSkin3Smooth: the vertex id each bone of the face lists, weight 1
MakeSkin3SmoothIds(c, c0, c1, face, vmap) ==
  Loop(c0 * c1, LAMBDA k : VMapFind(vmap, FaceName(c, face, k \div c1, k % c1)))

\* MakeSkin3Box: the vertex id each bone of the face lists, weight 1
MakeSkin3BoxIds(c0, c1, vcnt) == Loop(c0 * c1, LAMBDA k : vcnt + k)

\* the vertex ids of the bones, in the order of the bones
MakeSkin3Ids(c) ==
  LET n01 == c.count[1] * c.count[2]
      n02 == c.count[1] * c.count[3]
      n12 == c.count[2] * c.count[3]
      vmap == VMapNames(c)
      smooth(c0, c1, face) == MakeSkin3SmoothIds(c, c0, c1, face, vmap)
  IN  IF c.type \in {"box", "particle"}
      THEN MakeSkin3BoxIds(c.count[1], c.count[2], 0)
           \o MakeSkin3BoxIds(c.count[1], c.count[2], n01)
           \o MakeSkin3BoxIds(c.count[1], c.count[3], 2*n01)
           \o MakeSkin3BoxIds(c.count[1], c.count[3], 2*n01 + n02)
           \o MakeSkin3BoxIds(c.count[2], c.count[3], 2*n01 + 2*n02)
           \o MakeSkin3BoxIds(c.count[2], c.count[3], 2*n01 + 2*n02 + n12)
      ELSE IF c.type = "cylinder"
      THEN smooth(c.count[1], c.count[3], "y0") \o smooth(c.count[1], c.count[3], "y1")
           \o smooth(c.count[2], c.count[3], "x0") \o smooth(c.count[2], c.count[3], "x1")
           \o MakeSkin3BoxIds(c.count[1], c.count[2], Len(vmap))
           \o MakeSkin3BoxIds(c.count[1], c.count[2], Len(vmap) + n01)
      ELSE smooth(c.count[1], c.count[2], "z0") \o smooth(c.count[1], c.count[2], "z1")
           \o smooth(c.count[1], c.count[3], "y0") \o smooth(c.count[1], c.count[3], "y1")
           \o smooth(c.count[2], c.count[3], "x0") \o smooth(c.count[2], c.count[3], "x1")

\* the number of vertices pushed by the three schemes
MakeSkin3Verts(c) ==
  LET n01 == c.count[1] * c.count[2]
      n02 == c.count[1] * c.count[3]
      n12 == c.count[2] * c.count[3]
  IN  IF c.type \in {"box", "particle"} THEN 2*n01 + 2*n02 + 2*n12
      ELSE IF c.type = "cylinder" THEN Len(VMapNames(c)) + 2*n01
      ELSE Len(VMapNames(c))

MakeSkin3(c, m) ==
  LET z0 == MakeSkin3Face(c, c.count[1], c.count[2], "z0")
      z1 == MakeSkin3Face(c, c.count[1], c.count[2], "z1")
      y0 == MakeSkin3Face(c, c.count[1], c.count[3], "y0")
      y1 == MakeSkin3Face(c, c.count[1], c.count[3], "y1")
      x0 == MakeSkin3Face(c, c.count[2], c.count[3], "x0")
      x1 == MakeSkin3Face(c, c.count[2], c.count[3], "x1")
      bones == IF c.type = "cylinder"
               THEN y0 \o y1 \o x0 \o x1 \o z0 \o z1
               ELSE z0 \o z1 \o y0 \o y1 \o x0 \o x1
  IN  AddSkin(m, [name |-> c.prefix \o "Skin", bodyname |-> bones,
                  vertid |-> MakeSkin3Ids(c), nvert |-> MakeSkin3Verts(c)])

-----------------------------------------------------------------------------
(* mjCComposite::MakeParticle                                              *)

\* lattice indices of the k-th iteration of "for ix, for iy, for iz"
LatIx(c, k) == k \div (c.count[2] * c.count[3])
LatIy(c, k) == (k \div c.count[3]) % c.count[2]
LatIz(c, k) == k % c.count[3]

\* doubled spacing*(i - 0.5*n)
LatticeCoord2(spacing, i, n) == spacing * (2 * i - n)

ParticleLatticeSize(c) == c.count[1] * c.count[2] * c.count[3]

ParticleLatticeVert(c) ==
  Flatten(Loop(ParticleLatticeSize(c), LAMBDA k :
    <<LatticeCoord2(c.spacing, LatIx(c, k), c.count[1]),
      LatticeCoord2(c.spacing, LatIy(c, k), c.count[2]),
      LatticeCoord2(c.spacing, LatIz(c, k), c.count[3])>>))

\* "%sB%d_%d_%d"
\* variant: the name omits the third lattice index
ParticleLatticeName_NoZ(c, ix, iy, iz) ==
  c.prefix \o "B" \o Dec(ix) \o "_" \o Dec(iy)

ParticleLatticeName(c, ix, iy, iz) ==
  c.prefix \o "B" \o Dec(ix) \o "_" \o Dec(iy) \o "_" \o Dec(iz)

ParticleLatticeNames(c) ==
  Loop(ParticleLatticeSize(c), LAMBDA k :
    ParticleLatticeName(c, LatIx(c, k), LatIy(c, k), LatIz(c, k)))

cube2tets == << <<0, 3, 1, 7>>, <<0, 1, 4, 7>>, <<1, 3, 2, 7>>,
                <<1, 2, 6, 7>>, <<1, 5, 4, 7>>, <<1, 6, 5, 7>> >>

quad2tri == << <<0, 1, 2>>, <<0, 2, 3>> >>

\* vertex id of lattice point (ix, iy, iz)
LatVert(c, ix, iy, iz) == c.count[3] * c.count[2] * ix + c.count[3] * iy + iz

CubeFaces(c, ix, iy, iz) ==
  LET vert == <<LatVert(c, ix, iy, iz), LatVert(c, ix + 1, iy, iz),
                LatVert(c, ix + 1, iy + 1, iz), LatVert(c, ix, iy + 1, iz),
                LatVert(c, ix, iy, iz + 1), LatVert(c, ix + 1, iy, iz + 1),
                LatVert(c, ix + 1, iy + 1, iz + 1), LatVert(c, ix, iy + 1, iz + 1)>>
  IN  Flatten([s \in 1..6 |-> [v \in 1..4 |-> vert[cube2tets[s][v] + 1]]])

QuadFaces(c, ix, iy) ==
  LET vert == <<LatVert(c, ix, iy, 0), LatVert(c, ix + 1, iy, 0),
                LatVert(c, ix + 1, iy + 1, 0), LatVert(c, ix, iy + 1, 0)>>
  IN  Flatten([s \in 1..2 |-> [v \in 1..3 |-> vert[quad2tri[s][v] + 1]]])

\* the face list generated when the face attribute is empty
ParticleLatticeFaces(c) ==
  LET n0 == c.count[1] - 1
      n1 == c.count[2] - 1
      n2 == c.count[3] - 1
  IN  IF c.dim = 3
      THEN Flatten(Loop(n0 * n1 * n2, LAMBDA k :
             CubeFaces(c, k \div (n1 * n2), (k \div n2) % n1, k % n2)))
      ELSE IF c.dim = 2
      THEN Flatten(Loop(n0 * n1, LAMBDA k : QuadFaces(c, k \div n1, k % n1)))
      ELSE <<>>

\* variant: the edge that closes each triangle is left out
FaceEdgeSet_OpenTriangles(face) ==
  {<<Min(face[3*i + j + 1], face[3*i + ((j + 1) % 3) + 1]),
     Max(face[3*i + j + 1], face[3*i + ((j + 1) % 3) + 1])>> :
     i \in 0..(Len(face) \div 3 - 1), j \in 0..1}

\* the unordered vertex pairs of the triangles, sorted and made unique
FaceEdgeSet(face) ==
  {<<Min(face[3*i + j + 1], face[3*i + ((j + 1) % 3) + 1]),
     Max(face[3*i + j + 1], face[3*i + ((j + 1) % 3) + 1])>> :
     i \in 0..(Len(face) \div 3 - 1), j \in 0..2}

PairLess(a, b) == a[1] < b[1] \/ (a[1] = b[1] /\ a[2] < b[2])

RECURSIVE SortPairs(_)
SortPairs(S) ==
  IF S = {} THEN <<>>
  ELSE LET least == CHOOSE a \in S : \A b \in S \ {a} : PairLess(a, b)
       IN  <<least>> \o SortPairs(S \ {least})

ParticleEdges(face) == SortPairs(FaceEdgeSet(face))

\* name of particle body i
ParticleBodyName(c, i) ==
  IF c.username # <<>> THEN c.username[i + 1] ELSE c.prefix \o "B" \o Dec(i)

ParticleBody(c, i) ==
  [name |-> ParticleBodyName(c, i), parent |-> pbody,
   pos2 |-> <<2 * c.offset[1] + c.uservert[3*i + 1],
              2 * c.offset[2] + c.uservert[3*i + 2],
              2 * c.offset[3] + c.uservert[3*i + 3]>>]

\* joints of the body with handle b
ParticleJoints(c, b) ==
  IF ~c.add["particle"]
  THEN Loop(3, LAMBDA i : [name |-> "", body |-> b, type |-> "slide",
                           axis |-> i, kind |-> "joint"])
  ELSE Loop(Len(c.defjoint["particle"]), LAMBDA i :
              [name |-> "", body |-> b, type |-> "user", axis |-> i,
               kind |-> "particle",
               group |-> c.defjoint["particle"][i + 1].group,
               limited |-> c.defjoint["particle"][i + 1].limited])

ParticleTendon(c, e) ==
  [name |-> c.prefix \o "T" \o Dec(e[1]) \o "_" \o Dec(e[2]), kind |-> "tendon",
   wrap |-> <<[type |-> "site", name |-> c.prefix \o "S" \o Dec(e[1])],
              [type |-> "site", name |-> c.prefix \o "S" \o Dec(e[2])]>>]

TendonEquality(name) == [type |-> "tendon", name1 |-> name, name2 |-> ""]

\* populate vertices and names
ParticleVertices(c) ==
  IF c.uservert = <<>>
  THEN [c EXCEPT !.uservert = ParticleLatticeVert(c),
                 !.username = ParticleLatticeNames(c)]
  ELSE c

\* create faces: userface ends up holding the 0-based face list
ParticleFaces(c) ==
  IF c.userface = <<>>
  THEN [c EXCEPT !.userface = ParticleLatticeFaces(c)]
  ELSE [c EXCEPT !.dim = 2,
                 !.userface = [i \in 1..Len(c.userface) |-> c.userface[i] - 1]]

\* add isometry constraints
EdgeTendons(c, edge) == [i \in 1..Len(edge) |-> ParticleTendon(c, edge[i])]

ParticleTendons(c) ==
  IF c.dim = 2 THEN EdgeTendons(c, ParticleEdges(c.userface)) ELSE <<>>

\* create bodies and geoms, n of them, after the nb bodies of the model
ParticleEntities(c, m, n, nb, tendons) ==
  [m EXCEPT
     !.bodies = @ \o Loop(n, LAMBDA i : ParticleBody(c, i)),
     !.joints = @ \o Flatten(Loop(n, LAMBDA i : ParticleJoints(c, nb + i + 1))),
     !.geoms = @ \o Loop(n, LAMBDA i :
                      [name |-> "", body |-> nb + i + 1, type |-> c.geomtype]),
     !.sites = @ \o Loop(n, LAMBDA i :
                      [name |-> c.prefix \o "S" \o Dec(i), body |-> nb + i + 1]),
     !.tendons = @ \o tendons,
     !.equalities = @ \o [i \in 1..Len(tendons) |-> TendonEquality(tendons[i].name)]]

ParticleSkin(c, m) ==
  IF c.skin /\ c.dim = 3 THEN MakeSkin3(c, m)
  ELSE IF c.skin /\ c.dim = 2
  THEN (IF c.skinsubgrid > 0 THEN MakeSkin2Subgrid(c, m) ELSE MakeSkin2(c, m))
  ELSE m

\* std::stod on the thickness config throws invalid_argument (for the
\* values enumerated: when no number starts the text)
ThicknessInvalid(c) ==
  c.dim = 2 /\ c.plugin_instance /\ ~sscanf_d(c.config_attribs.thickness).ok

\* the plugin instance already has a face config when body 0 is reached
PluginFaceExists(c) ==
  c.plugin_instance /\ Len(c.uservert) \div 3 > 0 /\ c.config_attribs.face # ""

\* variant: the face config is checked once all entities are in the model,
\* and the bodies after the first are taken out again
ParticleBuild_LateFaceCheck(c, m) ==
  IF ThicknessInvalid(c) THEN comperr(Err.Thickness, c, m)
  ELSE IF PluginFaceExists(c)
  THEN comperr(Err.PluginFace, c,
               ParticleEntities(c, m, 1, Len(m.bodies), ParticleTendons(c)))
  ELSE Out(TRUE, "", c,
           ParticleSkin(c, ParticleEntities(c, m, Len(c.uservert) \div 3,
                                            Len(m.bodies), ParticleTendons(c))),
           FALSE)

\* MakeParticle once vertices and faces are populated
ParticleBuild(c, m) ==
  IF ThicknessInvalid(c) THEN comperr(Err.Thickness, c, m)
  ELSE IF PluginFaceExists(c)
  THEN comperr(Err.PluginFace, c, ParticleEntities(c, m, 1, Len(m.bodies), <<>>))
  ELSE Out(TRUE, "", c,
           ParticleSkin(c, ParticleEntities(c, m, Len(c.uservert) \div 3,
                                            Len(m.bodies), ParticleTendons(c))),
           FALSE)

MakeParticle(c, m) ==
  IF c.uservert = <<>> /\
     c.spacing < mju_max(c.geomsize[1], mju_max(c.geomsize[2], c.geomsize[3]))
  THEN comperr(Err.Spacing, c, m)
  ELSE ParticleBuild(ParticleFaces(ParticleVertices(c)), m)

-----------------------------------------------------------------------------
(* mjCComposite::MakeShear and mjCComposite::MakeGrid                      *)

\* "%sB%d_%d", "%sG%d_%d", "%sS%d_%d"
GridName(c, letter, ix, iy) == c.prefix \o letter \o Dec(ix) \o "_" \o Dec(iy)

\* the cell (ix, iy) is listed in pin
\* variant: only the first pin pair is consulted
Pinned_FirstOnly(c, ix, iy) ==
  Len(c.pin) >= 2 /\ c.pin[1] = ix /\ c.pin[2] = iy

Pinned(c, ix, iy) ==
  \E ip \in 0..(Len(c.pin) \div 2 - 1) : c.pin[2*ip + 1] = ix /\ c.pin[2*ip + 2] = iy

GridBody(c, ix, iy) ==
  [name |-> GridName(c, "B", ix, iy), parent |-> pbody,
   pos2 |-> <<2 * c.offset[1] + LatticeCoord2(c.spacing, ix, c.count[1]),
              2 * c.offset[2] + LatticeCoord2(c.spacing, iy, c.count[2]),
              2 * c.offset[3]>>]

\* joints of cell (ix, iy), whose body has handle b
GridJoints(c, ix, iy, b) ==
  IF Pinned(c, ix, iy) THEN <<>>
  ELSE Loop(3, LAMBDA i :
         [name |-> c.prefix \o "J" \o Dec(i) \o "_" \o Dec(ix) \o "_" \o Dec(iy),
          body |-> b, type |-> "slide", axis |-> i, kind |-> "joint"])

\* main tendon number (ix, iy) along axis i (0: x, 1: y)
GridTendon(c, i, ix, iy) ==
  [name |-> c.prefix \o "T" \o Dec(i) \o "_" \o Dec(ix) \o "_" \o Dec(iy),
   kind |-> "tendon",
   wrap |-> <<[type |-> "site", name |-> GridName(c, "S", ix, iy)],
              [type |-> "site",
               name |-> GridName(c, "S", ix + (IF i = 0 THEN 1 ELSE 0),
                                          iy + (IF i = 1 THEN 1 ELSE 0))]>>]

\* variant: the loops run over every cell, also the last one of axis i
GridAxisTendons_AllCells(c, i) ==
  Loop(c.count[1] * c.count[2], LAMBDA k :
    GridTendon(c, i, k \div c.count[2], k % c.count[2]))

\* the tendons of axis i: ix < count[0]-(i==0), iy < count[1]-(i==1)
GridAxisTendons(c, i) ==
  LET nx == c.count[1] - (IF i = 0 THEN 1 ELSE 0)
      ny == c.count[2] - (IF i = 1 THEN 1 ELSE 0)
  IN  Loop(nx * ny, LAMBDA k : GridTendon(c, i, k \div ny, k % ny))

GridTendons(c) == GridAxisTendons(c, 0) \o GridAxisTendons(c, 1)

\* variant: the shear tendon's name leaves the prefix out
ShearTendon_NoPrefix(c, ix, iy) ==
  [name |-> "TS" \o Dec(ix) \o "_" \o Dec(iy), kind |-> "shear",
   wrap |-> <<[type |-> "site", name |-> GridName(c, "S", ix, iy)],
              [type |-> "site", name |-> GridName(c, "S", ix + 1, iy + 1)]>>]

ShearTendon(c, ix, iy) ==
  [name |-> c.prefix \o "TS" \o Dec(ix) \o "_" \o Dec(iy), kind |-> "shear",
   wrap |-> <<[type |-> "site", name |-> GridName(c, "S", ix, iy)],
              [type |-> "site", name |-> GridName(c, "S", ix + 1, iy + 1)]>>]

MakeShear(c, m) ==
  LET ny == c.count[2] - 1
      tendons == Loop((c.count[1] - 1) * ny, LAMBDA k : ShearTendon(c, k \div ny, k % ny))
  IN  [m EXCEPT !.tendons = @ \o tendons,
                !.equalities = @ \o [i \in 1..Len(tendons) |->
                                       TendonEquality(tendons[i].name)]]

MakeGrid(c, m) ==
  IF c.dim > 2 THEN comperr(Err.GridDim, c, m)
  ELSE IF c.add["shear"] /\ c.dim # 2 THEN comperr(Err.ShearDim, c, m)
  ELSE IF c.skin /\ c.dim # 2 THEN comperr(Err.SkinDim, c, m)
  ELSE
  LET n == c.count[1] * c.count[2]
      nb == Len(m.bodies)
      ixOf(k) == k \div c.count[2]
      iyOf(k) == k % c.count[2]
      tendons == GridTendons(c)
      m1 == [m EXCEPT
               !.bodies = @ \o Loop(n, LAMBDA k : GridBody(c, ixOf(k), iyOf(k))),
               !.geoms = @ \o Loop(n, LAMBDA k :
                                [name |-> GridName(c, "G", ixOf(k), iyOf(k)),
                                 body |-> nb + k + 1, type |-> "sphere"]),
               !.sites = @ \o Loop(n, LAMBDA k :
                                [name |-> GridName(c, "S", ixOf(k), iyOf(k)),
                                 body |-> nb + k + 1]),
               !.joints = @ \o Flatten(Loop(n, LAMBDA k :
                                 GridJoints(c, ixOf(k), iyOf(k), nb + k + 1))),
               !.tendons = @ \o tendons,
               !.equalities = @ \o [i \in 1..Len(tendons) |->
                                      TendonEquality(tendons[i].name)]]
      m2 == IF c.add["shear"] THEN MakeShear(c, m1) ELSE m1
      m3 == IF c.skin
            THEN (IF c.skinsubgrid > 0 THEN MakeSkin2Subgrid(c, m2) ELSE MakeSkin2(c, m2))
            ELSE m2
  IN  Out(TRUE, "", c, m3, FALSE)

-----------------------------------------------------------------------------
(* mjCComposite::AddCableBody and mjCComposite::MakeCable                  *)

\* the name in this_body for segment ix
CableBodyName(c, ix) ==
  LET lastidx == c.count[1] - 2
  IN  IF ix = 0 THEN c.prefix \o "B_first"
      ELSE IF ix = lastidx THEN c.prefix \o "B_last"
      ELSE c.prefix \o "B_" \o Dec(ix)

\* the name in next_body for segment ix
CableNextName(c, ix) ==
  LET lastidx == c.count[1] - 2
  IN  IF ix = 0 THEN c.prefix \o "B_" \o Dec(ix + 1)
      ELSE IF ix = lastidx THEN c.prefix \o "B_first"
      ELSE IF ix = lastidx - 1 THEN c.prefix \o "B_last"
      ELSE c.prefix \o "B_" \o Dec(ix + 1)

CableJointName(c, ix) ==
  LET lastidx == c.count[1] - 2
  IN  IF ix = 0 THEN c.prefix \o "J_first"
      ELSE IF ix = lastidx THEN c.prefix \o "J_last"
      ELSE c.prefix \o "J_" \o Dec(ix)

CableSiteName(c, ix) ==
  IF ix = 0 THEN c.prefix \o "S_first" ELSE c.prefix \o "S_last"

\* variant: the free joint keeps the joint default's damping, armature and
\* frictionloss
AddCableBody_FreeKeepsDefaults(c, m, body, ix) ==
  LET lastidx == c.count[1] - 2
      first == ix = 0
      last == ix = lastidx
      b == Len(m.bodies) + 1
      type == IF first /\ c.initial = "free" THEN "free" ELSE "ball"
      joint == IF ~first \/ c.initial # "none"
               THEN <<[name |-> CableJointName(c, ix), body |-> b,
                       type |-> type,
                       damping |-> "default",
                       armature |-> "default",
                       frictionloss |-> "default",
                       axis |-> 0, kind |-> "joint"]>>
               ELSE <<>>
      exclude == IF ~last
                 THEN <<[bodyname1 |-> CableBodyName(c, ix),
                         bodyname2 |-> CableNextName(c, ix)]>>
                 ELSE <<>>
      site == IF last \/ first
              THEN <<[name |-> CableSiteName(c, ix), body |-> b,
                      posx |-> IF last THEN "length" ELSE "0"]>>
              ELSE <<>>
  IN  [m EXCEPT
         !.bodies = Append(@, [name |-> CableBodyName(c, ix), parent |-> body]),
         !.geoms = Append(@, [name |-> c.prefix \o "G" \o Dec(ix), body |-> b,
                              type |-> c.geomtype]),
         !.joints = @ \o joint,
         !.excludes = @ \o exclude,
         !.sites = @ \o site]

\* body is the handle of the parent; the new body gets handle Len(m.bodies)+1.
\* A joint's damping, armature and frictionloss are "0" or "default" (what
\* the joint default carries); a site's posx is "0" or "length" (the length
\* of its segment, as mju_updateFrame returned it).
AddCableBody(c, m, body, ix) ==
  LET lastidx == c.count[1] - 2
      first == ix = 0
      last == ix = lastidx
      b == Len(m.bodies) + 1
      type == IF first /\ c.initial = "free" THEN "free" ELSE "ball"
      joint == IF ~first \/ c.initial # "none"
               THEN <<[name |-> CableJointName(c, ix), body |-> b,
                       type |-> type,
                       damping |-> IF type = "free" THEN "0" ELSE "default",
                       armature |-> IF type = "free" THEN "0" ELSE "default",
                       frictionloss |-> IF type = "free" THEN "0" ELSE "default",
                       axis |-> 0, kind |-> "joint"]>>
               ELSE <<>>
      exclude == IF ~last
                 THEN <<[bodyname1 |-> CableBodyName(c, ix),
                         bodyname2 |-> CableNextName(c, ix)]>>
                 ELSE <<>>
      site == IF last \/ first
              THEN <<[name |-> CableSiteName(c, ix), body |-> b,
                      posx |-> IF last THEN "length" ELSE "0"]>>
              ELSE <<>>
  IN  [m EXCEPT
         !.bodies = Append(@, [name |-> CableBodyName(c, ix), parent |-> body]),
         !.geoms = Append(@, [name |-> c.prefix \o "G" \o Dec(ix), body |-> b,
                              type |-> c.geomtype]),
         !.joints = @ \o joint,
         !.excludes = @ \o exclude,
         !.sites = @ \o site]

RECURSIVE CableBodies(_, _, _, _)
\* the loop "for (ix=0; ix<count[0]-1; ix++) body = AddCableBody(...)"
CableBodies(c, m, body, ix) ==
  IF ix < c.count[1] - 1
  THEN CableBodies(c, AddCableBody(c, m, body, ix), Len(m.bodies) + 1, ix + 1)
  ELSE m

\* the curve samples stand for positions that no modelled field reads
CableVert(c) ==
  IF c.uservert = <<>> THEN [i \in 1..(3 * Max(c.count[1], 0)) |-> 0] ELSE c.uservert

\* populate uservert: the switch reaches its default case
CurveInvalid(c) ==
  /\ c.uservert = <<>>
  /\ c.count[1] > 0
  /\ \E k \in 1..3 : c.curve[k] \notin Range(shape_map)

\* variant: the text is added before the checks
MakeCable_TextFirst(c0, m) ==
  LET c == [c0 EXCEPT !.uservert = CableVert(c0)]
      m1 == [m EXCEPT !.texts = Append(@, [name |-> "composite_" \o c.prefix,
                                           data |-> "rope_" \o c.prefix])]
  IN
  IF c0.dim # 1 THEN comperr(Err.CableDim, c0, m1)
  ELSE IF c0.geomtype \notin {"cylinder", "capsule", "box"}
  THEN comperr(Err.CableGeom, c0, m1)
  ELSE
  IF CurveInvalid(c0) THEN mju_error(Err.Shape, c0, m1)
  ELSE
  LET m2 == CableBodies(c, m1, pbody, 0)
      m3 == IF c.geomtype = "box"
            THEN (IF c.skinsubgrid > 0
                  THEN MakeSkin2Subgrid([c EXCEPT !.count[2] = @ + 2], m2)
                  ELSE MakeSkin2([c EXCEPT !.count[2] = @ + 1], m2))
            ELSE m2
  IN  Out(TRUE, "", c, m3, FALSE)

MakeCable(c0, m) ==
  IF c0.dim # 1 THEN comperr(Err.CableDim, c0, m)
  ELSE IF c0.geomtype \notin {"cylinder", "capsule", "box"}
  THEN comperr(Err.CableGeom, c0, m)
  ELSE
  LET c == [c0 EXCEPT !.uservert = CableVert(c0)]
      m1 == [m EXCEPT !.texts = Append(@, [name |-> "composite_" \o c.prefix,
                                           data |-> "rope_" \o c.prefix])]
  IN
  IF CurveInvalid(c0) THEN mju_error(Err.Shape, c0, m1)
  ELSE
  LET m2 == CableBodies(c, m1, pbody, 0)
      m3 == IF c.geomtype = "box"
            THEN (IF c.skinsubgrid > 0
                  THEN MakeSkin2Subgrid([c EXCEPT !.count[2] = @ + 2], m2)
                  ELSE MakeSkin2([c EXCEPT !.count[2] = @ + 1], m2))
            ELSE m2
  IN  Out(TRUE, "", c, m3, FALSE)

-----------------------------------------------------------------------------
(* mjCComposite::AddRopeBody and mjCComposite::MakeRope                    *)

JointEquality(name1, name2) == [type |-> "joint", name1 |-> name1, name2 |-> name2]

\* adds element ix1 next to element ix under the body with handle body;
\* [m |-> the model, body |-> handle of the body the element lives in]
AddRopeBody(c, m, body, ix, ix1) ==
  LET isroot == ix = ix1
      b == IF isroot THEN body ELSE Len(m.bodies) + 1
      geom == [name |-> c.prefix \o "G" \o Dec(ix1), body |-> b, type |-> c.geomtype]
      main == Loop(2, LAMBDA i :
                [name |-> c.prefix \o "J" \o Dec(i) \o "_" \o Dec(ix1), body |-> b,
                 type |-> "hinge", axis |-> i + 1, kind |-> "joint"])
      twist == IF c.add["twist"]
               THEN <<[name |-> c.prefix \o "JT" \o Dec(ix1), body |-> b,
                       type |-> "hinge", axis |-> 0, kind |-> "twist"]>>
               ELSE <<>>
      stretch == IF c.add["stretch"]
                 THEN <<[name |-> c.prefix \o "JS" \o Dec(ix1), body |-> b,
                         type |-> "slide", axis |-> 0, kind |-> "stretch"]>>
                 ELSE <<>>
      fixed == twist \o stretch
  IN  IF isroot
      THEN [m |-> [m EXCEPT !.geoms = Append(@, geom)], body |-> body]
      ELSE [m |-> [m EXCEPT
                     !.bodies = Append(@, [name |-> c.prefix \o "B" \o Dec(ix1),
                                           parent |-> body]),
                     !.geoms = Append(@, geom),
                     !.joints = @ \o main \o fixed,
                     !.equalities = @ \o [i \in 1..Len(fixed) |->
                                            JointEquality(fixed[i].name, "")]],
            body |-> b]

RECURSIVE RopeRight(_, _, _, _)
\* "for (ix=ox; ix<count[0]-1; ix++) pbody = AddRopeBody(model, pbody, ix, ix+1)"
RopeRight(c, m, body, ix) ==
  IF ix < c.count[1] - 1
  THEN LET r == AddRopeBody(c, m, body, ix, ix + 1)
       IN  RopeRight(c, r.m, r.body, ix + 1)
  ELSE m

RECURSIVE RopeLeft(_, _, _, _)
\* "for (ix=ox; ix>0; ix--) pbody = AddRopeBody(model, pbody, ix, ix-1)"
RopeLeft(c, m, body, ix) ==
  IF ix > 0
  THEN LET r == AddRopeBody(c, m, body, ix, ix - 1)
       IN  RopeLeft(c, r.m, r.body, ix - 1)
  ELSE m

\* the root body's name starts with prefix + "B"
RootPrefixOk(c, body_name) ==
  LET txt == c.prefix \o "B" IN txt = SubstrTo(body_name, Len(txt))

\* variant: the text is cut at the end of the prefix, one character early
RootOrigin_CutEarly(c, body_name) == sscanf_d(SubstrFrom(body_name, Len(c.prefix)))

\* what sscanf reads after prefix + "B"
RootOrigin(c, body_name) == sscanf_d(SubstrFrom(body_name, Len(c.prefix \o "B")))

CloseLoop(c, m) ==
  LET txt == c.prefix \o "B0"
      txt2 == c.prefix \o "B" \o Dec(c.count[1] - 1)
  IN  [m EXCEPT
         !.equalities = Append(@, [type |-> "connect", name1 |-> txt, name2 |-> txt2]),
         !.excludes = Append(@, [bodyname1 |-> txt, bodyname2 |-> txt2])]

MakeRope(c, m) ==
  LET body_name == m.bodies[pbody].name
      o == RootOrigin(c, body_name)
      ox == o.val
  IN  IF c.dim # 1 THEN comperr(Err.RopeDim, c, m)
      ELSE IF ~RootPrefixOk(c, body_name)
      THEN comperr(c.prefix \o "B" \o Err.RootPrefix, c, m)
      ELSE IF ~o.ok THEN comperr(Err.RootCoord, c, m)
      ELSE IF ox < 0 \/ ox >= c.count[1] THEN comperr(Err.RootRange, c, m)
      ELSE
      LET m1 == AddRopeBody(c, m, pbody, ox, ox).m
          m2 == RopeRight(c, m1, pbody, ox)
          m3 == RopeLeft(c, m2, pbody, ox)
          m4 == IF c.type = "loop" THEN CloseLoop(c, m3) ELSE m3
      IN  Out(TRUE, "", c, m4, FALSE)

-----------------------------------------------------------------------------
(* mjCComposite::MakeBox                                                   *)

\* (ix, iy, iz) lies on the outside shell of the lattice
\* variant: the z faces are not part of the shell
OnShell_NoZ(c, ix, iy, iz) ==
  \/ ix = 0 \/ ix = c.count[1] - 1
  \/ iy = 0 \/ iy = c.count[2] - 1

OnShell(c, ix, iy, iz) ==
  \/ ix = 0 \/ ix = c.count[1] - 1
  \/ iy = 0 \/ iy = c.count[2] - 1
  \/ iz = 0 \/ iz = c.count[3] - 1

\* "%sB%d_%d_%d", "%sG%d_%d_%d", "%sJ%d_%d_%d"
BoxName(c, letter, ix, iy, iz) ==
  c.prefix \o letter \o Dec(ix) \o "_" \o Dec(iy) \o "_" \o Dec(iz)

\* variant: a clamped neighbor that is the point itself is paired as well
BoxNeighbors_SelfPairs(c, ix, iy, iz) ==
  Flatten(Loop(3, LAMBDA i :
    LET ix1 == Min(ix + (IF i = 0 THEN 1 ELSE 0), c.count[1] - 1)
        iy1 == Min(iy + (IF i = 1 THEN 1 ELSE 0), c.count[2] - 1)
        iz1 == Min(iz + (IF i = 2 THEN 1 ELSE 0), c.count[3] - 1)
    IN  IF OnShell(c, ix1, iy1, iz1)
        THEN <<[type |-> "joint", name1 |-> BoxName(c, "J", ix, iy, iz),
                name2 |-> BoxName(c, "J", ix1, iy1, iz1),
                solref |-> c.solrefsmooth]>>
        ELSE <<>>))

\* the neighbor equalities of shell point (ix, iy, iz); solref stands for
\* the copies of solrefsmooth and solimpsmooth
BoxNeighbors(c, ix, iy, iz) ==
  Flatten(Loop(3, LAMBDA i :
    LET ix1 == Min(ix + (IF i = 0 THEN 1 ELSE 0), c.count[1] - 1)
        iy1 == Min(iy + (IF i = 1 THEN 1 ELSE 0), c.count[2] - 1)
        iz1 == Min(iz + (IF i = 2 THEN 1 ELSE 0), c.count[3] - 1)
    IN  IF OnShell(c, ix1, iy1, iz1) /\ (ix # ix1 \/ iy # iy1 \/ iz # iz1)
        THEN <<[type |-> "joint", name1 |-> BoxName(c, "J", ix, iy, iz),
                name2 |-> BoxName(c, "J", ix1, iy1, iz1),
                solref |-> c.solrefsmooth]>>
        ELSE <<>>))

\* the lattice points of the shell, in loop order
BoxShell(c) ==
  SelectSeq(Loop(ParticleLatticeSize(c), LAMBDA k : <<LatIx(c, k), LatIy(c, k), LatIz(c, k)>>),
            LAMBDA q : OnShell(c, q[1], q[2], q[3]))

MakeBox(c, m) ==
  IF c.dim # 3 THEN comperr(Err.BoxDim, c, m)
  ELSE
  LET shell == BoxShell(c)
      n == Len(shell)
      nb == Len(m.bodies)
      jname(q) == BoxName(c, "J", q[1], q[2], q[3])
      ten == [name |-> c.prefix \o "T", kind |-> "tendon",
              wrap |-> [k \in 1..n |-> [type |-> "joint", name |-> jname(shell[k]),
                                       coef |-> 1]]]
      m1 == [m EXCEPT
               !.geoms = Append(@, [name |-> c.prefix \o "Gcenter", body |-> pbody,
                                    type |-> "sphere"])
                         \o [k \in 1..n |->
                               [name |-> BoxName(c, "G", shell[k][1], shell[k][2], shell[k][3]),
                                body |-> nb + k,
                                type |-> IF c.geomtype = "capsule" THEN "capsule"
                                         ELSE "sphere"]],
               !.tendons = Append(@, ten),
               !.bodies = @ \o [k \in 1..n |->
                                  [name |-> BoxName(c, "B", shell[k][1], shell[k][2], shell[k][3]),
                                   parent |-> pbody]],
               !.joints = @ \o [k \in 1..n |->
                                  [name |-> jname(shell[k]), body |-> nb + k,
                                   type |-> "slide", axis |-> 2, kind |-> "joint"]],
               !.equalities = @ \o Flatten([k \in 1..n |->
                                  <<JointEquality(jname(shell[k]), "")>>
                                  \o BoxNeighbors(c, shell[k][1], shell[k][2], shell[k][3])])
                              \o <<TendonEquality(ten.name)>>]
      m2 == IF c.skin THEN MakeSkin3(c, m1) ELSE m1
  IN  Out(TRUE, "", c, m2, FALSE)

-----------------------------------------------------------------------------
(* mjCComposite::Make                                                      *)

\* check geom type
\* variant: box geoms pass the check as well
GeomTypeRejected_BoxAllowed(c) ==
  /\ c.geomtype \notin {"sphere", "capsule", "ellipsoid", "box"}
  /\ c.type # "particle"
  /\ c.type # "cable"

GeomTypeRejected(c) ==
  /\ c.geomtype \notin {"sphere", "capsule", "ellipsoid"}
  /\ c.type # "particle"
  /\ c.type # "cable"

\* check spacing
SpacingRejected(c) ==
  /\ c.type = "grid" \/ (c.type = "particle" /\ c.uservert = <<>>)
  /\ c.spacing < mju_max(c.geomsize[1], mju_max(c.geomsize[2], c.geomsize[3]))

\* check either uservert or count but not both: count as overridden
VertexCount(c) ==
  IF c.uservert # <<>>
  THEN [c EXCEPT !.count = <<Len(c.uservert) \div 3, 1, c.count[3]>>]
  ELSE c

RECURSIVE SingletonScan(_, _, _, _)
\* determine dimensionality, check singleton order, from axis i on;
\* [ok |-> no error, dim |-> dim when the loop is left]
SingletonScan(count, i, first, dim) ==
  IF i > 3 THEN [ok |-> TRUE, dim |-> dim]
  ELSE IF count[i] = 1 THEN SingletonScan(count, i + 1, TRUE, dim)
  ELSE IF first THEN [ok |-> FALSE, dim |-> dim + 1]
  ELSE SingletonScan(count, i + 1, first, dim + 1)

\* require 3x3 for subgrid
SubgridRejected(c) ==
  /\ c.skin /\ c.skinsubgrid > 0 /\ c.type # "cable"
  /\ c.count[1] < 3 \/ c.count[2] < 3

\* variant: rope is still expanded by MakeRope
Dispatch_RopeBuilds(c, m) ==
  CASE c.type = "particle" -> MakeParticle(c, m)
    [] c.type = "grid" -> MakeGrid(c, m)
    [] c.type = "rope" -> MakeRope(c, m)
    [] c.type = "loop" -> [MakeRope(c, m) EXCEPT !.warning = TRUE]
    [] c.type = "cable" -> MakeCable(c, m)
    [] c.type = "cloth" -> comperr(Err.Cloth, c, m)
    [] c.type \in {"box", "cylinder", "ellipsoid"} -> MakeBox(c, m)

\* dispatch
Dispatch(c, m) ==
  CASE c.type = "particle" -> MakeParticle(c, m)
    [] c.type = "grid" -> MakeGrid(c, m)
    [] c.type = "rope" -> comperr(Err.Rope, c, m)
    [] c.type = "loop" -> [MakeRope(c, m) EXCEPT !.warning = TRUE]
    [] c.type = "cable" -> MakeCable(c, m)
    [] c.type = "cloth" -> comperr(Err.Cloth, c, m)
    [] c.type \in {"box", "cylinder", "ellipsoid"} -> MakeBox(c, m)

Make(c, m) ==
  IF GeomTypeRejected(c) THEN comperr(Err.GeomType, c, m)
  ELSE IF Len(c.pin) % 2 # 0 THEN comperr(Err.Pin, c, m)
  ELSE IF \E i \in 1..3 : c.count[i] < 1 THEN comperr(Err.Count, c, m)
  ELSE IF SpacingRejected(c) THEN comperr(Err.Spacing, c, m)
  ELSE IF mjuu_dot3(c.size, c.size) < 1 /\ c.uservert = <<>> THEN comperr(Err.Size, c, m)
  ELSE IF c.spacing # 0 /\ c.type = "cable" THEN comperr(Err.CableSpacing, c, m)
  ELSE IF c.uservert # <<>> /\ c.count[1] > 1 THEN comperr(Err.VertexCount, c, m)
  ELSE
  LET c1 == VertexCount(c)
      scan == SingletonScan(c1.count, 1, FALSE, c1.dim)
      c2 == [c1 EXCEPT !.dim = scan.dim]
  IN  IF ~scan.ok THEN comperr(Err.Singleton, c2, m)
      ELSE IF SubgridRejected(c2) THEN comperr(Err.Subgrid, c2, m)
      ELSE Dispatch(c2, m)

\* OneComposite, last part: make composite, throw error
MakeComposite ==
  /\ pc = "sub"
  /\ LET out == Make(comp, model)
     IN  /\ comp' = out.comp
         /\ model' = out.model
         /\ res' = out.res
         /\ error' = out.error
         /\ warning' = out.warning
         /\ pc' = IF out.fatal THEN "abort" ELSE "done"

-----------------------------------------------------------------------------

Next ==
  \/ ReadTop
  \/ SetDefault
  \/ ReadSub
  \/ MakeComposite

Spec == Init /\ [][Next]_vars

-----------------------------------------------------------------------------
(* Vocabulary of the properties                                            *)

\* Make has returned / has returned success
Made == pc = "done"
MadeOk == pc = "done" /\ res = TRUE

Names(seq) == {seq[i].name : i \in 1..Len(seq)}

\* handles of the bodies Make created (handle 1 is the parent body)
Created == 2..Len(model.bodies)
CreatedBodyNames == {model.bodies[b].name : b \in Created}

\* the composite was expanded from the lattice, not from a vertex attribute
LatticeGenerated == comp.username # <<>>

MaxGeomSize == Max(comp.geomsize[1], Max(comp.geomsize[2], comp.geomsize[3]))

\* errors of the checks Make performs before the singleton-order check
EarlyErrors ==
  {Err.GeomType, Err.Pin, Err.Count, Err.Spacing, Err.Size, Err.CableSpacing, Err.VertexCount}

\* errors of all checks Make performs before dispatching
ValidationErrors == EarlyErrors \cup {Err.Singleton, Err.Subgrid}

-----------------------------------------------------------------------------
\* C1: after a successful Make of a grid, lattice-generated particle, loop or
\* box/cylinder/ellipsoid composite, every site or joint wrapped by a tendon
\* and every name1/name2 of an equality is the name of an existing site,
\* joint, tendon or body (for the loop's connect: a created body or the root).
C1_CrossRefsResolve ==
  (MadeOk /\ (comp.type \in {"grid", "loop", "box", "cylinder", "ellipsoid"}
              \/ (comp.type = "particle" /\ LatticeGenerated)))
  => /\ \A i \in 1..Len(model.tendons) : \A j \in 1..Len(model.tendons[i].wrap) :
          LET w == model.tendons[i].wrap[j]
          IN  IF w.type = "site" THEN w.name \in Names(model.sites)
              ELSE w.name \in Names(model.joints)
     /\ \A i \in 1..Len(model.equalities) :
          LET e == model.equalities[i]
          IN  CASE e.type = "tendon" -> e.name1 \in Names(model.tendons)
                [] e.type = "joint" -> /\ e.name1 \in Names(model.joints)
                                       /\ e.name2 = "" \/ e.name2 \in Names(model.joints)
                [] e.type = "connect" -> /\ e.name1 \in Names(model.bodies)
                                         /\ e.name2 \in Names(model.bodies)

-----------------------------------------------------------------------------
\* C2: whenever a successful Make produced a skin, every bone body name of the
\* skin is the name of a body that this Make created.
C2_BonesExist ==
  MadeOk => \A i \in 1..Len(model.skins) :
              Range(model.skins[i].bodyname) \subseteq CreatedBodyNames

-----------------------------------------------------------------------------
\* C3: a successful lattice-generated particle composite has exactly
\* count[0]*count[1]*count[2] bodies, with pairwise distinct names.
C3_ParticleBodies ==
  (MadeOk /\ comp.type = "particle" /\ LatticeGenerated)
  => /\ Cardinality(Created) = comp.count[1] * comp.count[2] * comp.count[3]
     /\ \A a, b \in Created : a # b => model.bodies[a].name # model.bodies[b].name

\* a 2x3x2 particle lattice has been expanded into 12 bodies
C3_Witness ==
  /\ MadeOk /\ comp.type = "particle" /\ LatticeGenerated
  /\ comp.count = <<2, 3, 2>>
  /\ Cardinality(Created) = 12

-----------------------------------------------------------------------------
RECURSIVE SumPos2(_, _)
\* sum over the created bodies from handle b on of the doubled coordinate a
SumPos2(b, a) ==
  IF b > Len(model.bodies) THEN 0 ELSE model.bodies[b].pos2[a] + SumPos2(b + 1, a)

\* C4: the body positions of a lattice-generated particle composite are
\* centered at offset: along every axis their mean is the offset coordinate.
C4_LatticeCentered ==
  (MadeOk /\ comp.type = "particle" /\ LatticeGenerated)
  => \A a \in 1..3 : SumPos2(2, a) = Cardinality(Created) * 2 * comp.offset[a]

-----------------------------------------------------------------------------
\* the main (non-shear) tendons of the model, as indices into model.tendons
MainTendons == {i \in 1..Len(model.tendons) : model.tendons[i].kind = "tendon"}

\* handles of the bodies that own a site of the given name
SiteOwners(name) ==
  {model.sites[s].body : s \in {k \in 1..Len(model.sites) : model.sites[k].name = name}}

\* body q is the next cell after body p along one of the two grid axes
GridAdjacent(p, q) ==
  LET a == model.bodies[p].pos2
      b == model.bodies[q].pos2
  IN  \/ b[1] - a[1] = 2 * comp.spacing /\ b[2] = a[2]
      \/ b[1] = a[1] /\ b[2] - a[2] = 2 * comp.spacing

\* tendon t wraps exactly a site of body p, then a site of body q
Connects(t, p, q) ==
  /\ Len(model.tendons[t].wrap) = 2
  /\ \A j \in 1..2 : model.tendons[t].wrap[j].type = "site"
  /\ p \in SiteOwners(model.tendons[t].wrap[1].name)
  /\ q \in SiteOwners(model.tendons[t].wrap[2].name)

\* C5: a successful R x C grid has exactly R*(C-1) + C*(R-1) main tendons,
\* one for each pair of lattice-adjacent cells, and exactly one TENDON
\* equality per main tendon, whatever the pins are.
C5_GridTendons ==
  (MadeOk /\ comp.type = "grid")
  => /\ Cardinality(MainTendons) =
          comp.count[1] * (comp.count[2] - 1) + comp.count[2] * (comp.count[1] - 1)
     /\ \A t \in MainTendons : \E p, q \in Created : GridAdjacent(p, q) /\ Connects(t, p, q)
     /\ \A p, q \in Created :
          GridAdjacent(p, q) => Cardinality({t \in MainTendons : Connects(t, p, q)}) = 1
     /\ \A t \in MainTendons :
          Cardinality({e \in 1..Len(model.equalities) :
                         /\ model.equalities[e].type = "tendon"
                         /\ model.equalities[e].name1 = model.tendons[t].name}) = 1

\* a pinned 3x2 grid has been expanded: 3*1 + 2*2 = 7 main tendons
C5_Witness ==
  /\ MadeOk /\ comp.type = "grid"
  /\ comp.count = <<3, 2, 1>> /\ comp.pin = <<0, 1, 1, 1>>
  /\ Cardinality(MainTendons) = 7

-----------------------------------------------------------------------------
\* the joints, geoms and sites of body b, as indices
JointsOf(b) == {j \in 1..Len(model.joints) : model.joints[j].body = b}
GeomsOf(b) == {g \in 1..Len(model.geoms) : model.geoms[g].body = b}
SitesOf(b) == {k \in 1..Len(model.sites) : model.sites[k].body = b}

\* (ix, iy) appears as a coordinate pair in pin
InPin(ix, iy) ==
  \E ip \in 1..(Len(comp.pin) \div 2) : comp.pin[2*ip - 1] = ix /\ comp.pin[2*ip] = iy

\* C6: in a successful grid every cell has its body, geom and site; a cell
\* listed in pin has no joint, every other cell has exactly three slide
\* joints, one along each of x, y and z.
C6_GridPins ==
  (MadeOk /\ comp.type = "grid")
  => /\ Cardinality(Created) = comp.count[1] * comp.count[2]
     /\ \A ix \in 0..(comp.count[1] - 1) : \A iy \in 0..(comp.count[2] - 1) :
          LET b == 2 + ix * comp.count[2] + iy
          IN  /\ b \in Created
              /\ GeomsOf(b) # {} /\ SitesOf(b) # {}
              /\ IF InPin(ix, iy) THEN JointsOf(b) = {}
                 ELSE /\ Cardinality(JointsOf(b)) = 3
                      /\ \A j \in JointsOf(b) : model.joints[j].type = "slide"
                      /\ {model.joints[j].axis : j \in JointsOf(b)} = {0, 1, 2}

\* a 2x2 grid with cells (0,1) and (1,1) pinned: two bodies carry joints
C6_Witness ==
  /\ MadeOk /\ comp.type = "grid"
  /\ comp.count = <<2, 2, 1>> /\ comp.pin = <<0, 1, 1, 1>>
  /\ Len(model.joints) = 6 /\ JointsOf(5) = {} /\ Cardinality(JointsOf(2)) = 3

-----------------------------------------------------------------------------
\* C7: Make fails with the geom-type error for every type other than cable,
\* particle included, whose default geom is not sphere, capsule or ellipsoid;
\* a cable whose default geom is not cylinder, capsule or box is rejected too.
C7_GeomTypeParticleIncluded ==
  Made => /\ (comp.type # "cable" /\ comp.geomtype \notin {"sphere", "capsule", "ellipsoid"})
             => (res = FALSE /\ error = Err.GeomType)
          /\ (comp.type = "cable" /\ comp.geomtype \notin {"cylinder", "capsule", "box"})
             => res = FALSE

\* C7 (amended): Make fails with the geom-type error for every type other than
\* cable and particle whose default geom is not sphere, capsule or ellipsoid;
\* a cable whose default geom is not cylinder, capsule or box is rejected too.
C7_GeomType ==
  Made => /\ (comp.type \notin {"cable", "particle"}
              /\ comp.geomtype \notin {"sphere", "capsule", "ellipsoid"})
             => (res = FALSE /\ error = Err.GeomType)
          /\ (comp.type = "cable" /\ comp.geomtype \notin {"cylinder", "capsule", "box"})
             => res = FALSE

\* a grid with a box geom has been rejected by Make
C7_Witness ==
  /\ Made /\ comp.type = "grid" /\ comp.geomtype = "box"
  /\ res = FALSE /\ error = Err.GeomType

-----------------------------------------------------------------------------
\* C8: a grid, or a particle composite without explicit vertices, is made
\* successfully only if spacing is strictly greater than the largest
\* component of the default geom size.
C8_SpacingStrict ==
  (MadeOk /\ (comp.type = "grid" \/ (comp.type = "particle" /\ LatticeGenerated)))
  => comp.spacing > MaxGeomSize

-----------------------------------------------------------------------------
\* some axis with count 1 precedes an axis with count greater than 1
SingletonBeforeLarger ==
  \E i, j \in 1..3 : i < j /\ comp.count[i] = 1 /\ comp.count[j] > 1

\* comp.dim is still the value Make computed: MakeParticle overwrites dim
\* with 2 when it loads a face list
DimOfMake == comp.type # "particle" \/ res = FALSE \/ comp.dim # 2

\* C9: when the earlier checks pass, Make fails with the singleton-order
\* error exactly when an axis with count 1 precedes an axis with count > 1;
\* otherwise dim is the number of axes whose (overridden) count exceeds 1.
C9_SingletonOrderDim ==
  (Made /\ error \notin EarlyErrors)
  => /\ error = Err.Singleton <=> SingletonBeforeLarger
     /\ (error # Err.Singleton /\ DimOfMake)
        => comp.dim = Cardinality({i \in 1..3 : comp.count[i] > 1})

-----------------------------------------------------------------------------
\* the model holds nothing but the parent body
NothingAdded ==
  /\ Len(model.bodies) = 1
  /\ \A f \in {"joints", "geoms", "sites", "tendons", "equalities",
               "excludes", "texts", "skins"} : model[f] = <<>>

\* C10: Make never succeeds for rope or cloth and adds no entity; a loop is
\* not rejected for its type: once validation passes a deprecation warning
\* is raised and the outcome is that of MakeRope.
C10_Deprecated ==
  Made => /\ comp.type \in {"rope", "cloth"} => (res = FALSE /\ NothingAdded)
          /\ comp.type = "loop"
             => /\ error \notin {Err.Rope, Err.Cloth}
                /\ error \notin ValidationErrors
                   => /\ warning = TRUE
                      /\ \/ res = TRUE
                         \/ error \in {Err.RopeDim, Err.RootCoord, Err.RootRange,
                                       comp.prefix \o "B" \o Err.RootPrefix}

\* a rope under a well-named root body has passed validation and is refused
C10_Witness ==
  /\ Made /\ comp.type = "rope" /\ comp.prefix = "a" /\ comp.count = <<3, 1, 1>>
  /\ model.bodies[1].name = "aB0"
  /\ res = FALSE /\ error = Err.Rope

-----------------------------------------------------------------------------
\* C11: reading and expanding a composite element never ends in the
\* engine-fatal abort, whatever the attribute values are.
C11_NoAbort == pc # "abort"

-----------------------------------------------------------------------------
\* what the geom, joint, tendon and pin sub-elements are read into
SubFields(c) == <<c.geomtype, c.geomsize, c.add, c.pin>>

\* what the attributes of the element and its skin sub-element are read into
\* (count, vertex and face are left out: Make rewrites them)
TopFields(c) ==
  <<c.prefix, c.type, c.spacing, c.offset, c.initial, c.size, c.curve,
    c.skin, c.skinsubgrid>>

-----------------------------------------------------------------------------
\* every site or joint wrapped by a tendon, every name of an equality, both
\* bodies of every exclude and every bone of every skin is in the model
RefsResolve ==
  /\ \A i \in 1..Len(model.tendons) : \A j \in 1..Len(model.tendons[i].wrap) :
       LET w == model.tendons[i].wrap[j]
       IN  IF w.type = "site" THEN w.name \in Names(model.sites)
           ELSE w.name \in Names(model.joints)
  /\ \A i \in 1..Len(model.equalities) :
       LET e == model.equalities[i]
       IN  CASE e.type = "tendon" -> e.name1 \in Names(model.tendons)
             [] e.type = "joint" -> /\ e.name1 \in Names(model.joints)
                                    /\ e.name2 = "" \/ e.name2 \in Names(model.joints)
             [] e.type = "connect" -> /\ e.name1 \in Names(model.bodies)
                                      /\ e.name2 \in Names(model.bodies)
  /\ \A i \in 1..Len(model.excludes) :
       /\ model.excludes[i].bodyname1 \in Names(model.bodies)
       /\ model.excludes[i].bodyname2 \in Names(model.bodies)
  /\ \A i \in 1..Len(model.skins) :
       Range(model.skins[i].bodyname) \subseteq Names(model.bodies)

\* C13: whenever Make returns failure, nothing that it added to the model
\* before failing refers to an entity name that is not in the model.
C13_FailureLeavesValidModel == (Made /\ res = FALSE) => RefsResolve

\* Make has failed on the plugin's face config after adding the first body
\* of a 2x2 particle lattice
C13_Witness ==
  /\ Made /\ res = FALSE /\ error = Err.PluginFace
  /\ comp.count = <<2, 2, 1>> /\ Len(model.bodies) = 2 /\ Len(model.sites) = 1

-----------------------------------------------------------------------------
\* the integer the given text begins with, for the texts that follow
\* prefix + "B" in the root body names enumerated; the empty set when there
\* is none
LeadingInt(tail) ==
  CASE tail \in {"0", "0x"} -> {0}
    [] tail \in {"1", "01", " 1"} -> {1}
    [] tail \in {"2", "2_0"} -> {2}
    [] tail = "7" -> {7}
    [] tail = "-1" -> {-1}
    [] tail \in {"", "x"} -> {}

\* the text of the root body's name after the first n characters
RootTail(n) == SubSeq(model.bodies[1].name, n + 1, Len(model.bodies[1].name))

\* the root body's name starts with prefix + "B" and goes on with an integer
\* inside [0, count[0])
RootNameGood ==
  LET pre == comp.prefix \o "B"
      root == model.bodies[1].name
  IN  /\ Len(root) >= Len(pre) /\ SubSeq(root, 1, Len(pre)) = pre
      /\ LeadingInt(RootTail(Len(pre))) # {}
      /\ LeadingInt(RootTail(Len(pre))) \subseteq 0..(comp.count[1] - 1)

MaxSubgrid == 2    \* largest skinsubgrid of the weight computation

RECURSIVE Pow(_, _)
Pow(b, e) == IF e = 0 THEN 1 ELSE b * Pow(b, e - 1)

\* the common factor of one Weight row: 4 for D, (1+g)^6 for XY
WeightScale(g) == 4 * Pow(1 + g, 6)

\* variant: the y^2 row of the coefficient matrix has one sign slipped
subW_SignSlip ==
  <<
    << 1,  0,  0,  0,  0,  0,  0,  0,  0,  0,  0,  0,  0,  0,  0,  0>>,
    << 0,  0,  0,  0,  0,  0,  0,  0,  1,  0,  0,  0,  0,  0,  0,  0>>,
    <<-3,  0,  0, -3,  0,  0,  0,  0, -2,  0,  0, -1,  0,  0,  0,  0>>,
    << 2,  0,  0, -2,  0,  0,  0,  0,  1,  0,  0,  1,  0,  0,  0,  0>>,
    << 0,  0,  0,  0,  1,  0,  0,  0,  0,  0,  0,  0,  0,  0,  0,  0>>,
    << 0,  0,  0,  0,  0,  0,  0,  0,  0,  0,  0,  0,  1,  0,  0,  0>>,
    << 0,  0,  0,  0, -3,  0,  0,  3,  0,  0,  0,  0, -2,  0,  0, -1>>,
    << 0,  0,  0,  0,  2,  0,  0, -2,  0,  0,  0,  0,  1,  0,  0,  1>>,
    <<-3,  3,  0,  0, -2, -1,  0,  0,  0,  0,  0,  0,  0,  0,  0,  0>>,
    << 0,  0,  0,  0,  0,  0,  0,  0, -3,  3,  0,  0, -2, -1,  0,  0>>,
    << 9, -9,  9, -9,  6,  3, -3, -6,  6, -6, -3,  3,  4,  2,  1,  2>>,
    <<-6,  6, -6,  6, -4, -2,  2,  4, -3,  3,  3, -3, -2, -1, -1, -2>>,
    << 2, -2,  0,  0,  1,  1,  0,  0,  0,  0,  0,  0,  0,  0,  0,  0>>,
    << 0,  0,  0,  0,  0,  0,  0,  0,  2, -2,  0,  0,  1,  1,  0,  0>>,
    <<-6,  6, -6,  6, -3, -3,  3,  3, -4,  4,  2, -2, -2, -2, -1, -1>>,
    << 4, -4,  4, -4,  2,  2, -2, -2,  2, -2, -2,  2,  1,  1,  1,  1>> >>
\* C = W * [f; f_x; f_y; f_xy]
subW ==
  <<
    << 1,  0,  0,  0,  0,  0,  0,  0,  0,  0,  0,  0,  0,  0,  0,  0>>,
    << 0,  0,  0,  0,  0,  0,  0,  0,  1,  0,  0,  0,  0,  0,  0,  0>>,
    <<-3,  0,  0,  3,  0,  0,  0,  0, -2,  0,  0, -1,  0,  0,  0,  0>>,
    << 2,  0,  0, -2,  0,  0,  0,  0,  1,  0,  0,  1,  0,  0,  0,  0>>,
    << 0,  0,  0,  0,  1,  0,  0,  0,  0,  0,  0,  0,  0,  0,  0,  0>>,
    << 0,  0,  0,  0,  0,  0,  0,  0,  0,  0,  0,  0,  1,  0,  0,  0>>,
    << 0,  0,  0,  0, -3,  0,  0,  3,  0,  0,  0,  0, -2,  0,  0, -1>>,
    << 0,  0,  0,  0,  2,  0,  0, -2,  0,  0,  0,  0,  1,  0,  0,  1>>,
    <<-3,  3,  0,  0, -2, -1,  0,  0,  0,  0,  0,  0,  0,  0,  0,  0>>,
    << 0,  0,  0,  0,  0,  0,  0,  0, -3,  3,  0,  0, -2, -1,  0,  0>>,
    << 9, -9,  9, -9,  6,  3, -3, -6,  6, -6, -3,  3,  4,  2,  1,  2>>,
    <<-6,  6, -6,  6, -4, -2,  2,  4, -3,  3,  3, -3, -2, -1, -1, -2>>,
    << 2, -2,  0,  0,  1,  1,  0,  0,  0,  0,  0,  0,  0,  0,  0,  0>>,
    << 0,  0,  0,  0,  0,  0,  0,  0,  2, -2,  0,  0,  1,  1,  0,  0>>,
    <<-6,  6, -6,  6, -3, -3,  3,  3, -4,  4,  2, -2, -2, -2, -1, -1>>,
    << 4, -4,  4, -4,  2,  2, -2, -2,  2, -2, -2,  2,  1,  1,  1,  1>> >>
\* sparse D tables, Dp[dx + 1][dy + 1]: per row (column, coefficient) pairs
\* closed by -1, coefficients in quarters
Dp ==
  <<
    <<
      \* subD00
      <<
        5, 4, -1,  9, 4, -1,
        10, 4, -1,  6, 4, -1,
        5, -4, 9, 4, -1,  5, -2, 13, 2, -1,
        6, -2, 14, 2, -1,  6, -4, 10, 4, -1,
        5, -4, 6, 4, -1,  9, -4, 10, 4, -1,
        9, -2, 11, 2, -1,  5, -2, 7, 2, -1,
        9, -4, 6, -4, 5, 4, 10, 4, -1,  13, -2, 6, -2, 5, 2, 14, 2, -1,
        13, -1, 7, -1, 5, 1, 15, 1, -1,  9, -2, 7, -2, 5, 2, 11, 2, -1 >>,
      \* subD01
      <<
        5, 4, -1,  9, 4, -1,
        10, 4, -1,  6, 4, -1,
        5, -4, 9, 4, -1,  5, -2, 13, 2, -1,
        6, -2, 14, 2, -1,  6, -4, 10, 4, -1,
        4, -2, 6, 2, -1,  8, -2, 10, 2, -1,
        9, -2, 11, 2, -1,  5, -2, 7, 2, -1,
        8, -2, 6, -2, 4, 2, 10, 2, -1,  12, -1, 6, -1, 4, 1, 14, 1, -1,
        13, -1, 7, -1, 5, 1, 15, 1, -1,  9, -2, 7, -2, 5, 2, 11, 2, -1 >>,
      \* subD02
      <<
        5, 4, -1,  9, 4, -1,
        10, 4, -1,  6, 4, -1,
        5, -4, 9, 4, -1,  5, -2, 13, 2, -1,
        6, -2, 14, 2, -1,  6, -4, 10, 4, -1,
        4, -2, 6, 2, -1,  8, -2, 10, 2, -1,
        9, -4, 10, 4, -1,  5, -4, 6, 4, -1,
        8, -2, 6, -2, 4, 2, 10, 2, -1,  12, -1, 6, -1, 4, 1, 14, 1, -1,
        13, -2, 6, -2, 5, 2, 14, 2, -1,  9, -4, 6, -4, 5, 4, 10, 4, -1 >> >>,
    <<
      \* subD10
      <<
        5, 4, -1,  9, 4, -1,
        10, 4, -1,  6, 4, -1,
        1, -2, 9, 2, -1,  5, -2, 13, 2, -1,
        6, -2, 14, 2, -1,  2, -2, 10, 2, -1,
        5, -4, 6, 4, -1,  9, -4, 10, 4, -1,
        9, -2, 11, 2, -1,  5, -2, 7, 2, -1,
        9, -2, 2, -2, 1, 2, 10, 2, -1,  13, -2, 6, -2, 5, 2, 14, 2, -1,
        13, -1, 7, -1, 5, 1, 15, 1, -1,  9, -1, 3, -1, 1, 1, 11, 1, -1 >>,
      \* subD11
      <<
        5, 4, -1,  9, 4, -1,
        10, 4, -1,  6, 4, -1,
        1, -2, 9, 2, -1,  5, -2, 13, 2, -1,
        6, -2, 14, 2, -1,  2, -2, 10, 2, -1,
        4, -2, 6, 2, -1,  8, -2, 10, 2, -1,
        9, -2, 11, 2, -1,  5, -2, 7, 2, -1,
        8, -1, 2, -1, 0, 1, 10, 1, -1,  12, -1, 6, -1, 4, 1, 14, 1, -1,
        13, -1, 7, -1, 5, 1, 15, 1, -1,  9, -1, 3, -1, 1, 1, 11, 1, -1 >>,
      \* subD12
      <<
        5, 4, -1,  9, 4, -1,
        10, 4, -1,  6, 4, -1,
        1, -2, 9, 2, -1,  5, -2, 13, 2, -1,
        6, -2, 14, 2, -1,  2, -2, 10, 2, -1,
        4, -2, 6, 2, -1,  8, -2, 10, 2, -1,
        9, -4, 10, 4, -1,  5, -4, 6, 4, -1,
        8, -1, 2, -1, 0, 1, 10, 1, -1,  12, -1, 6, -1, 4, 1, 14, 1, -1,
        13, -2, 6, -2, 5, 2, 14, 2, -1,  9, -2, 2, -2, 1, 2, 10, 2, -1 >> >>,
    <<
      \* subD20
      <<
        5, 4, -1,  9, 4, -1,
        10, 4, -1,  6, 4, -1,
        1, -2, 9, 2, -1,  5, -4, 9, 4, -1,
        6, -4, 10, 4, -1,  2, -2, 10, 2, -1,
        5, -4, 6, 4, -1,  9, -4, 10, 4, -1,
        9, -2, 11, 2, -1,  5, -2, 7, 2, -1,
        9, -2, 2, -2, 1, 2, 10, 2, -1,  9, -4, 6, -4, 5, 4, 10, 4, -1,
        9, -2, 7, -2, 5, 2, 11, 2, -1,  9, -1, 3, -1, 1, 1, 11, 1, -1 >>,
      \* subD21
      <<
        5, 4, -1,  9, 4, -1,
        10, 4, -1,  6, 4, -1,
        1, -2, 9, 2, -1,  5, -4, 9, 4, -1,
        6, -4, 10, 4, -1,  2, -2, 10, 2, -1,
        4, -2, 6, 2, -1,  8, -2, 10, 2, -1,
        9, -2, 11, 2, -1,  5, -2, 7, 2, -1,
        8, -1, 2, -1, 0, 1, 10, 1, -1,  8, -2, 6, -2, 4, 2, 10, 2, -1,
        9, -2, 7, -2, 5, 2, 11, 2, -1,  9, -1, 3, -1, 1, 1, 11, 1, -1 >>,
      \* subD22
      <<
        5, 4, -1,  9, 4, -1,
        10, 4, -1,  6, 4, -1,
        1, -2, 9, 2, -1,  5, -4, 9, 4, -1,
        6, -4, 10, 4, -1,  2, -2, 10, 2, -1,
        4, -2, 6, 2, -1,  8, -2, 10, 2, -1,
        9, -4, 10, 4, -1,  5, -4, 6, 4, -1,
        8, -1, 2, -1, 0, 1, 10, 1, -1,  8, -2, 6, -2, 4, 2, 10, 2, -1,
        9, -4, 6, -4, 5, 4, 10, 4, -1,  9, -2, 2, -2, 1, 2, 10, 2, -1 >> >> >>

\* make dense D: scan the table from position cnt, row r
RECURSIVE ScanD(_, _, _, _)
ScanD(tab, cnt, r, D) ==
  IF r > 16 THEN D
  ELSE IF tab[cnt] # -1
    THEN ScanD(tab, cnt + 2, r, [D EXCEPT ![r][tab[cnt] + 1] = tab[cnt + 1]])
    ELSE ScanD(tab, cnt + 1, r + 1, D)

DenseD(dx, dy) ==
  ScanD(Dp[dx + 1][dy + 1], 1, 1, [r \in 1..16 |-> [c \in 1..16 |-> 0]])

\* variant: the powers of x and y change places
XYRow_Swapped(g, sx, sy) ==
  [k \in 1..16 |->
     Pow(sx, (k - 1) % 4) * Pow(sy, (k - 1) \div 4)
       * Pow(1 + g, 6 - ((k - 1) \div 4) - ((k - 1) % 4))]

\* make XY-row for x = sx * step, y = sy * step: entry 4a + b is x^a * y^b
XYRow(g, sx, sy) ==
  [k \in 1..16 |->
     Pow(sx, (k - 1) \div 4) * Pow(sy, (k - 1) % 4)
       * Pow(1 + g, 6 - ((k - 1) \div 4) - ((k - 1) % 4))]

RECURSIVE Dot(_, _, _)
Dot(v, w, k) == IF k = 0 THEN 0 ELSE v[k] * w[k] + Dot(v, w, k - 1)

\* one row of a matrix product: v * M
RowMul(v, M) == [j \in 1..16 |-> Dot(v, [k \in 1..16 |-> M[k][j]], 16)]

\* row n of Weight(d) = XY * W * D(d), d = 3 * dx + dy
WeightRow(g, dx, dy, n) ==
  RowMul(RowMul(XYRow(g, n \div (2 + g), n % (2 + g)), subW), DenseD(dx, dy))

\* inputs of the weight computation: skinsubgrid, boundary class, sample
InitSubgrid ==
  /\ pc = "subgrid"
  /\ \E g \in 0..MaxSubgrid, dx \in 0..2, dy \in 0..2 :
       \E n \in 0..((2 + g) * (2 + g) - 1) :
         comp = [skinsubgrid |-> g, dx |-> dx, dy |-> dy, n |-> n]
  /\ model = <<>>
  /\ res = "none"
  /\ error = ""
  /\ warning = FALSE

Weights ==
  /\ pc = "subgrid"
  /\ model' = WeightRow(comp.skinsubgrid, comp.dx, comp.dy, comp.n)
  /\ pc' = "weighted"
  /\ UNCHANGED <<comp, res, error, warning>>

SpecSubgrid == InitSubgrid /\ [][Weights]_vars

Ones(k) == [i \in 1..16 |-> IF i <= k THEN 1 ELSE 0]

\* C15: for each of the nine boundary classes and every sample row, the 16
\* bone weights of Weight = XY*W*D sum to 1, because every function-value
\* row of the class's D sums to 1, every derivative row sums to 0, and
\* XY*W applied to the vector (1,1,1,1,0,...,0) gives 1.
C15_WeightsSumToOne ==
  pc = "weighted" =>
    LET g == comp.skinsubgrid
        D == DenseD(comp.dx, comp.dy)
        XY_W == RowMul(XYRow(g, comp.n \div (2 + g), comp.n % (2 + g)), subW)
    IN  /\ Dot(model, Ones(16), 16) = WeightScale(g)
        /\ \A r \in 1..4 : Dot(D[r], Ones(16), 16) = 4
        /\ \A r \in 5..16 : Dot(D[r], Ones(16), 16) = 0
        /\ Dot(XY_W, Ones(4), 16) = Pow(1 + g, 6)

\* the centre sample of an interior cell with one subdivision: all 16 bones
\* carry weight, some of it negative
C15_Witness ==
  /\ pc = "weighted" /\ comp.skinsubgrid = 1
  /\ comp.dx = 1 /\ comp.dy = 1 /\ comp.n = 4
  /\ \A bi \in 1..16 : model[bi] # 0
  /\ \E bi \in 1..16 : model[bi] < 0

\* bone slot of the cell corner that sample n is, without subdivision
CornerSlot(n) == CASE n = 0 -> 5 [] n = 1 -> 6 [] n = 2 -> 9 [] n = 3 -> 10

\* C16: with skinsubgrid = 0 the samples are the 4 cell corners, and each
\* has weight exactly 1 on the bone at that corner (slots 5, 9, 10, 6 for
\* the corners (0,0), (1,0), (1,1), (0,1)) and 0 on the other 15, for
\* every boundary class.
C16_CornerWeights ==
  (pc = "weighted" /\ comp.skinsubgrid = 0) =>
    \A bi \in 0..15 :
      model[bi + 1] = IF bi = CornerSlot(comp.n) THEN WeightScale(0) ELSE 0

\* corner (1,0) of a right-bottom cell: all weight on bone slot 9
C16_Witness ==
  /\ pc = "weighted" /\ comp.skinsubgrid = 0
  /\ comp.dx = 2 /\ comp.dy = 0 /\ comp.n = 2
  /\ model[10] = 4

\* ---------------------------------------------------------------------
\* Cables

\* a cable of at least 2 vertices was expanded
CableMade == MadeOk /\ comp.type = "cable" /\ comp.count[1] >= 2

\* C18: a cable of n >= 2 vertices gets one contact exclude per pair of
\* consecutive segments (n - 2 of them), and the two names of each exclude
\* are the names of those two created segment bodies, for every n.
C18_CableExcludes ==
  CableMade =>
    /\ Len(model.excludes) = comp.count[1] - 2
    /\ \A k \in 1..Len(model.excludes) :
         /\ k + 2 <= Len(model.bodies)
         /\ model.excludes[k].bodyname1 = model.bodies[k + 1].name
         /\ model.excludes[k].bodyname2 = model.bodies[k + 2].name

\* C19: a cable of n >= 2 vertices has exactly two sites: prefix + "S_first"
\* on the first segment at local position 0 and prefix + "S_last" on the
\* last segment at local x = the length of that segment, also when n = 2.
C19_CableEndSites ==
  CableMade =>
    /\ Len(model.sites) = 2
    /\ model.sites[1] =
         [name |-> comp.prefix \o "S_first", body |-> 2, posx |-> "0"]
    /\ model.sites[2] =
         [name |-> comp.prefix \o "S_last", body |-> Len(model.bodies),
          posx |-> "length"]

\* C20: a cable of n vertices creates n - 1 segment bodies as one chain
\* (segment 0 under the parent body, segment i + 1 under segment i);
\* segment 0 has no joint when initial is "none", one free joint with
\* damping, armature and frictionloss 0 when it is "free", one ball joint
\* otherwise; every other segment has exactly one ball joint.  (n >= 1: a
\* lattice extent is at least 1.)
C20_CableChain ==
  (MadeOk /\ comp.type = "cable" /\ comp.count[1] >= 1) =>
    /\ Len(model.bodies) = comp.count[1]
    /\ \A b \in Created : model.bodies[b].parent = b - 1
    /\ \A b \in Created :
         IF b = 2 /\ comp.initial = "none" THEN JointsOf(b) = {}
         ELSE /\ Cardinality(JointsOf(b)) = 1
              /\ \A j \in JointsOf(b) :
                   IF b = 2 /\ comp.initial = "free"
                   THEN /\ model.joints[j].type = "free"
                        /\ model.joints[j].damping = "0"
                        /\ model.joints[j].armature = "0"
                        /\ model.joints[j].frictionloss = "0"
                   ELSE model.joints[j].type = "ball"

\* a free cable of MaxCount + 1 vertices: three segments, three joints
C20_Witness ==
  /\ MadeOk /\ comp.type = "cable" /\ comp.initial = "free"
  /\ comp.count[1] = MaxCount + 1
  /\ Len(model.bodies) = MaxCount + 1 /\ Len(model.joints) = MaxCount
  /\ model.joints[1].type = "free" /\ model.joints[2].type = "ball"

\* ---------------------------------------------------------------------
\* Two composite elements of the same parent body, expanded one after the
\* other into the same model.

\* composite elements with their sub-elements: <<top, sub>>
TwoElems ==
  UNION {
    {<<Top(p, "grid", c, MaxSpacing, <<0, 0, 0>>, <<>>, <<>>, "ball", <<1, 0, 0>>, k),
       Sub("sphere", <<>>, t, <<>>)>> :
       c \in {<<2, 2, 1>>, <<3, 2, 1>>}, t \in {<<>>, <<"shear">>},
       k \in {<<FALSE, 0>>, <<TRUE, 0>>}}
    \cup
    {<<Top(p, "particle", c, MaxSpacing, <<0, 0, 0>>, <<>>, <<>>, "ball", <<1, 0, 0>>, k),
       Sub("sphere", <<>>, <<>>, <<>>)>> :
       c \in {<<2, 1, 1>>, <<2, 2, 1>>}, k \in {<<FALSE, 0>>, <<TRUE, 0>>}}
    \cup
    {<<Top(p, "cable", c, 0, <<0, 0, 0>>, <<>>, <<>>, "ball", <<1, 0, 0>>, <<FALSE, 0>>),
       Sub(g, <<>>, <<>>, <<>>)>> :
       c \in {<<MaxCount, 1, 1>>, <<MaxCount + 1, 1, 1>>}, g \in {"capsule", "box"}}
    \cup
    {<<Top(p, "box", <<2, 2, 2>>, MaxSpacing, <<0, 0, 0>>, <<>>, <<>>, "ball",
           <<1, 0, 0>>, <<k, 0>>),
       Sub("sphere", <<>>, <<>>, <<>>)>> : k \in BOOLEAN}
    : p \in {"", "a", "aB", "aB0_"}}

\* OneComposite, whole: a new mjCComposite is read and expanded into the
\* model; after the first element the reader goes on to its sibling.  The
\* elements enumerated are children of the world body.
OneComposite ==
  /\ pc \in {"new", "second"}
  /\ model.bodies[1].name = "world"
  /\ \E el \in TwoElems :
       LET rt == ReadTopOf(NewComposite, el[1])
           rj == ReadJoints(ReadGeom(SetDefaultOf(rt.c), el[2].geom), el[2].joints)
           c == ReadPins(ReadTendons(rj.c, el[2].tendons), el[2].pin)
           out == IF ~rt.ok THEN Out(FALSE, rt.error, rt.c, model, FALSE)
                  ELSE IF ~rj.ok THEN Out(FALSE, Err.MultiJoint, rj.c, model, FALSE)
                  ELSE Make(c, model)
       IN  /\ comp' = out.comp
           /\ model' = out.model
           /\ res' = out.res
           /\ error' = out.error
           /\ warning' = out.warning
           /\ pc' = IF ~rt.ok \/ ~rj.ok THEN "thrown"
                    ELSE IF out.fatal THEN "abort"
                    ELSE IF ~out.res THEN "done"
                    ELSE IF pc = "new" THEN "second" ELSE "both"

SpecTwo == Init /\ [][OneComposite]_vars

NamedKinds == {"bodies", "geoms", "sites", "joints", "tendons"}

\* <<kind, name>> of the named entities m has beyond those of m0
Entities(m, m0) ==
  UNION {{<<k, m[k][i].name>> : i \in (Len(m0[k]) + 1)..Len(m[k])} : k \in NamedKinds}
  \ (NamedKinds \X {""})

\* <<kind, name>> of what the tendons, equalities, excludes and skins that m
\* has beyond those of m0 refer to
RefsOf(m, m0) ==
  (UNION {{<<IF m.tendons[i].wrap[j].type = "site" THEN "sites" ELSE "joints",
             m.tendons[i].wrap[j].name>> : j \in 1..Len(m.tendons[i].wrap)} :
            i \in (Len(m0.tendons) + 1)..Len(m.tendons)}
   \cup UNION {LET e == m.equalities[i]
                   k == CASE e.type = "tendon" -> "tendons"
                          [] e.type = "joint" -> "joints"
                          [] e.type = "connect" -> "bodies"
               IN  {<<k, e.name1>>, <<k, e.name2>>} :
               i \in (Len(m0.equalities) + 1)..Len(m.equalities)}
   \cup UNION {{<<"bodies", m.excludes[i].bodyname1>>,
                <<"bodies", m.excludes[i].bodyname2>>} :
               i \in (Len(m0.excludes) + 1)..Len(m.excludes)}
   \cup UNION {{<<"bodies", n>> : n \in Range(m.skins[i].bodyname)} :
               i \in (Len(m0.skins) + 1)..Len(m.skins)})
  \ (NamedKinds \X {""})

\* C17: when a second composite with a different prefix is expanded into
\* the model that holds the first, no body, geom, site, joint or tendon name
\* of the one equals a same-kind name of the other, and no tendon,
\* equality, exclude or skin of the one names an entity of the other.
C17_PrefixesSeparate ==
  [][(pc = "second" /\ pc' = "both" /\ comp'.prefix # comp.prefix) =>
       LET root == NewModel(model.bodies[1].name)
       IN  /\ Entities(model, root) \cap Entities(model', model) = {}
           /\ RefsOf(model, root) \cap Entities(model', model) = {}
           /\ RefsOf(model', model) \cap Entities(model, root) = {}]_vars

\* a cable with prefix "a", then a sheared grid with prefix "aB"
C17_Witness ==
  /\ pc = "both" /\ comp.prefix = "aB" /\ comp.type = "grid"
  /\ {"aB_first", "aBB0_0"} \subseteq Names(model.bodies)
  /\ "aBTS0_0" \in Names(model.tendons)

\* ---------------------------------------------------------------------
\* Particle joints

\* the joint sub-nodes of kind particle, in document order
ParticleElems == SelectSeq(comp.xml.joint, LAMBDA e : e.kind = "particle")

\* the joints of body b, in the order they were added
JointSeqOf(b) == SelectSeq(model.joints, LAMBDA j : j.body = b)

\* C21: with k >= 1 joint sub-nodes of kind particle (other kinds may be
\* mixed in, in any order) every particle body gets exactly k joints, the
\* i-th configured from the i-th particle sub-node (it has that node's
\* group), and no default slide joint; with no particle sub-node every body
\* gets exactly 3 slide joints along x, y, z.
C21_ParticleJoints ==
  (MadeOk /\ comp.type = "particle") =>
    \A b \in Created :
      LET js == JointSeqOf(b)
      IN  IF ParticleElems = <<>>
          THEN /\ Len(js) = 3
               /\ \A i \in 1..3 : js[i].type = "slide" /\ js[i].axis = i - 1
          ELSE /\ Len(js) = Len(ParticleElems)
               /\ \A i \in 1..Len(js) :
                    /\ js[i].kind = "particle"
                    /\ js[i].group = ParticleElems[i].group

\* ---------------------------------------------------------------------
\* The limited attribute of joint and tendon sub-nodes

\* the last node of the given kind among the nodes read (there is one)
LastOfKind(nodes, kind) ==
  nodes[CHOOSE i \in 1..Len(nodes) :
          /\ nodes[i].kind = kind
          /\ \A j \in (i + 1)..Len(nodes) : nodes[j].kind # kind]

KindsRead(nodes) == {nodes[i].kind : i \in 1..Len(nodes)}

\* C28: once the sub-elements are read, the limited flag of a joint kind's
\* default template (of a tendon kind's default) is the value of the limited
\* attribute written on the joint (tendon) sub-node of that kind: it is read
\* from the sub-node, not from the composite element.
C28_LimitedFromSubNode ==
  pc = "sub" =>
    /\ \A k \in KindsRead(comp.xml.joint) :
         LET ejnt == LastOfKind(comp.xml.joint, k)
         IN  "limited" \in DOMAIN ejnt =>
               comp.defjoint[k][Len(comp.defjoint[k])].limited = ejnt.limited
    /\ \A k \in KindsRead(comp.xml.tendon) :
         LET eten == LastOfKind(comp.xml.tendon, k)
         IN  "limited" \in DOMAIN eten => comp.tendonlimited[k] = eten.limited

\* ---------------------------------------------------------------------
\* Particle membranes

\* the unordered vertex pairs {a, b} that are an edge of some triangle of
\* the face list the builder ended with
TriangleEdges ==
  {{comp.userface[3*i + j + 1], comp.userface[3*i + ((j + 1) % 3) + 1]} :
     i \in 0..(Len(comp.userface) \div 3 - 1), j \in 0..2}

\* the sites a tendon wraps
WrapSites(t) == {t.wrap[j].name : j \in 1..Len(t.wrap)}

\* C22: a successful 2-D particle composite has exactly one tendon and one
\* tendon equality per distinct unordered vertex pair that is an edge of a
\* triangle of the face list, the tendon wrapping the sites of the pair's
\* two vertices; a lattice-generated R x C membrane has
\* R*(C-1) + C*(R-1) + (R-1)*(C-1) of them.
C22_MembraneEdges ==
  (MadeOk /\ comp.type = "particle" /\ comp.dim = 2) =>
    /\ Len(model.tendons) = Cardinality(TriangleEdges)
    /\ \A e \in TriangleEdges :
         Cardinality({i \in 1..Len(model.tendons) :
                        /\ Len(model.tendons[i].wrap) = 2
                        /\ WrapSites(model.tendons[i]) =
                             {comp.prefix \o "S" \o ToString(v) : v \in e}}) = 1
    /\ Len(model.equalities) = Len(model.tendons)
    /\ \A i \in 1..Len(model.tendons) :
         /\ model.equalities[i].type = "tendon"
         /\ model.equalities[i].name1 = model.tendons[i].name
    /\ (comp.xml.elem.userface = <<>> /\ comp.xml.elem.uservert = <<>>) =>
         Len(model.tendons) =
           comp.count[1] * (comp.count[2] - 1) + comp.count[2] * (comp.count[1] - 1)
             + (comp.count[1] - 1) * (comp.count[2] - 1)

\* a 3 x 2 lattice membrane: 3 + 4 + 2 = 9 tendons
C22_Witness ==
  /\ MadeOk /\ comp.type = "particle" /\ comp.dim = 2
  /\ comp.count = <<3, 2, 1>> /\ comp.xml.elem.userface = <<>>
  /\ Len(model.tendons) = 9 /\ Len(model.equalities) = 9

\* ---------------------------------------------------------------------
\* Box, cylinder, ellipsoid

BoxMade == MadeOk /\ comp.type \in {"box", "cylinder", "ellipsoid"}

\* the lattice points with an index that is 0 or its axis maximum
Boundary ==
  {q \in (0..(comp.count[1] - 1)) \X (0..(comp.count[2] - 1)) \X (0..(comp.count[3] - 1)) :
     \E i \in 1..3 : q[i] = 0 \/ q[i] = comp.count[i] - 1}

PointName(letter, q) ==
  comp.prefix \o letter \o ToString(q[1]) \o "_" \o ToString(q[2]) \o "_" \o ToString(q[3])

\* C23: MakeBox creates a body for lattice point (ix,iy,iz) if and only if
\* an index is 0 or its axis maximum, c0*c1*c2 - (c0-2)*(c1-2)*(c2-2) bodies
\* in all; each has exactly one slide joint, and the one fixed tendon
\* prefix + "T" wraps every one of these joints exactly once, coefficient 1.
C23_BoxShell ==
  BoxMade =>
    /\ CreatedBodyNames = {PointName("B", q) : q \in Boundary}
    /\ Cardinality(Created) =
         comp.count[1] * comp.count[2] * comp.count[3]
           - (comp.count[1] - 2) * (comp.count[2] - 2) * (comp.count[3] - 2)
    /\ \A b \in Created :
         /\ Cardinality(JointsOf(b)) = 1
         /\ \A j \in JointsOf(b) : model.joints[j].type = "slide"
    /\ Len(model.tendons) = 1
    /\ model.tendons[1].name = comp.prefix \o "T"
    /\ \A j \in 1..Len(model.joints) :
         Cardinality({k \in 1..Len(model.tendons[1].wrap) :
                        /\ model.tendons[1].wrap[k].type = "joint"
                        /\ model.tendons[1].wrap[k].name = model.joints[j].name}) = 1
    /\ \A k \in 1..Len(model.tendons[1].wrap) :
         /\ model.tendons[1].wrap[k].coef = 1
         /\ model.tendons[1].wrap[k].name \in Names(model.joints)

\* a 3 x 3 x 3 box: 26 bodies, the centre point (1,1,1) has none
C23_Witness ==
  /\ BoxMade /\ comp.count = <<3, 3, 3>>
  /\ Cardinality(Created) = 26
  /\ comp.prefix \o "B1_1_1" \notin CreatedBodyNames
  /\ Len(model.tendons[1].wrap) = 26

\* the two-joint equalities
PairEqualities ==
  {i \in 1..Len(model.equalities) :
     model.equalities[i].type = "joint" /\ model.equalities[i].name2 # ""}

\* boundary points that differ by 1 in exactly one index
BoxAdjacent(p, q) ==
  \E i \in 1..3 : /\ q[i] = p[i] + 1 \/ p[i] = q[i] + 1
                  /\ \A j \in (1..3) \ {i} : p[j] = q[j]

\* C24: MakeBox creates exactly one two-joint equality, with the smooth
\* solver parameters, for each unordered pair of boundary lattice points
\* that differ by 1 in exactly one index, naming the slide joints of the
\* two bodies; none for any other pair, none pairing a joint with itself.
C24_BoxNeighbors ==
  BoxMade =>
    /\ \A p \in Boundary : \A q \in Boundary :
         Cardinality({i \in PairEqualities :
                        {model.equalities[i].name1, model.equalities[i].name2}
                          = {PointName("J", p), PointName("J", q)}})
           = IF BoxAdjacent(p, q) THEN 1 ELSE 0
    /\ \A i \in PairEqualities :
         /\ model.equalities[i].solref = comp.solrefsmooth
         /\ model.equalities[i].name1 # model.equalities[i].name2
         /\ \E p \in Boundary : \E q \in Boundary :
              /\ model.equalities[i].name1 = PointName("J", p)
              /\ model.equalities[i].name2 = PointName("J", q)

\* a 2 x 2 x 3 box: 12 boundary points, 20 adjacent pairs
C24_Witness ==
  /\ BoxMade /\ comp.count = <<2, 2, 3>>
  /\ Cardinality(PairEqualities) = 20

\* ---------------------------------------------------------------------
\* The two-sided lattice skin

\* the skins that carry a lattice mesh
LatticeSkins == {i \in 1..Len(model.skins) : "face" \in DOMAIN model.skins[i]}

\* c1 of the lattice MakeSkin2 is given: MakeCable widens count[1] by one
\* for the call and restores it
SkinCols == IF comp.type = "cable" THEN comp.count[2] + 1 ELSE comp.count[2]

\* the triangles of face list f that hold the directed edge (a, b)
WithEdge(f, a, b) ==
  {t \in 1..Len(f) : \E k \in 1..3 : f[t][k] = a /\ f[t][(k % 3) + 1] = b}

\* C25: the mesh MakeSkin2 builds for a c0 x c1 lattice (both at least 2) has
\* 2*c0*c1 vertices and is a closed, consistently oriented surface: every
\* face index is in [0, 2*c0*c1), and every directed edge of a triangle is in
\* exactly one triangle while its reverse is in exactly one other triangle.
C25_ClosedSurface ==
  \A i \in LatticeSkins :
    LET sk == model.skins[i]
    IN  (comp.count[1] >= 2 /\ SkinCols >= 2) =>
          /\ sk.nvert = 2 * comp.count[1] * SkinCols
          /\ sk.face # <<>>
          /\ \A t \in 1..Len(sk.face) : \A k \in 1..3 :
               /\ sk.face[t][k] \in 0..(sk.nvert - 1)
               /\ LET a == sk.face[t][k]
                      b == sk.face[t][(k % 3) + 1]
                  IN  /\ WithEdge(sk.face, a, b) = {t}
                      /\ Cardinality(WithEdge(sk.face, b, a) \ {t}) = 1
                      /\ t \notin WithEdge(sk.face, b, a)

\* a 3 x 3 grid: 18 vertices, 16 side triangles and 16 border triangles
C25_Witness ==
  /\ MadeOk /\ comp.type = "grid" /\ comp.count = <<3, 3, 1>>
  /\ LatticeSkins # {}
  /\ \A i \in LatticeSkins :
       model.skins[i].nvert = 18 /\ Len(model.skins[i].face) = 32

\* ---------------------------------------------------------------------
\* The 3-D skin

\* the skins MakeSkin3 built
Skins3 == {i \in 1..Len(model.skins) : "vertid" \in DOMAIN model.skins[i]}

\* the bones of skin sk that the name -> index map scheme added: the map's
\* vertices come first
SmoothBones(sk) ==
  IF comp.type \in {"cylinder", "ellipsoid"}
  THEN {b \in 1..Len(sk.bodyname) : sk.vertid[b] < Len(VMapNames(comp))}
  ELSE {}

\* C26: in the name -> index map scheme of the 3-D skin (all faces of the
\* ellipsoid, the side faces of the cylinder) a lattice point that lies on
\* two or three faces yields one mesh vertex, and that vertex is listed in
\* the vertex list of exactly one bone of the skin.
C26_SharedVertexOneBone ==
  MadeOk =>
    \A i \in Skins3 :
      LET sk == model.skins[i]
      IN  \A a \in SmoothBones(sk) : \A b \in SmoothBones(sk) :
            /\ sk.bodyname[a] = sk.bodyname[b] => sk.vertid[a] = sk.vertid[b]
            /\ sk.vertid[a] = sk.vertid[b] => a = b

\* ---------------------------------------------------------------------
\* The binding loop of MakeSkin2Subgrid, one coarse cell per step.  comp
\* holds the lattice MakeSkin2Subgrid is called with and the loop position
\* (ix, iy); model holds the skin: nvert, vertid of every bone, and as
\* history the samples visited and the bone indices used with a nonzero
\* weight.  pc is "bind" in the loop, "bound" after it, and "fault" when an
\* access outside skin->vertid has ended the process.

MaxBind == 4       \* largest count[0], count[1] of a subgrid skin

\* the lattices Make routes to MakeSkin2Subgrid: a grid or particle of at
\* least 3 x 3, and a cable (at least two points), whose count[1] = 1
\* MakeCable widens by 2 for the call
BindInputs ==
  {[type |-> t, count |-> <<c0, c1>>, skinsubgrid |-> g, ix |-> 0, iy |-> 0] :
     t \in {"grid", "particle"}, c0 \in 3..MaxBind, c1 \in 3..MaxBind,
     g \in 1..MaxSubgrid}
  \cup {[type |-> "cable", count |-> <<c0, 1 + 2>>, skinsubgrid |-> g,
         ix |-> 0, iy |-> 0] : c0 \in 2..MaxBind, g \in 1..MaxSubgrid}

\* C0, C1 of the refined mesh
Fine(c, i) == c.count[i] + (c.count[i] - 1) * c.skinsubgrid

\* the skin when the binding loop is entered: two layers of C0*C1 vertices,
\* one bone with an empty vertid per lattice point
InitBind ==
  /\ pc = "bind"
  /\ comp \in BindInputs
  /\ model = [nvert |-> 2 * Fine(comp, 1) * Fine(comp, 2),
              vertid |-> [b \in 0..(comp.count[1] * comp.count[2] - 1) |-> <<>>],
              visited |-> <<>>, slots |-> {}]
  /\ res = "none"
  /\ error = ""
  /\ warning = FALSE

\* "d" of the cell, as the pair of boundary classes
BindClass(n, i) == IF i = 0 THEN 0 ELSE IF i = n - 2 THEN 2 ELSE 1

\* boneid[bi]: dx and dy run from -1 to 2, dy fastest
BoneId(c, bi) ==
  (c.ix + (bi \div 4) - 1) * c.count[2] + (c.iy + (bi % 4) - 1)

\* variant: no cell owns the last index
BindSamples_NoOwner(c) ==
  LET g == c.skinsubgrid
      ny == 1 + g
  IN  Loop((1 + g) * ny, LAMBDA k :
        [ix |-> c.ix, iy |-> c.iy, dx |-> k \div ny, dy |-> k % ny,
         vid |-> (c.ix * (1 + g) + (k \div ny)) * Fine(c, 2)
                 + c.iy * (1 + g) + (k % ny),
         n |-> (k \div ny) * (2 + g) + (k % ny)])

\* the samples (dx, dy) of the cell at (c.ix, c.iy), with vid and the row n
\* in Weight: the last cell of an axis owns the last index
BindSamples(c) ==
  LET g == c.skinsubgrid
      nx == 1 + g + (IF c.ix = c.count[1] - 2 THEN 1 ELSE 0)
      ny == 1 + g + (IF c.iy = c.count[2] - 2 THEN 1 ELSE 0)
  IN  Loop(nx * ny, LAMBDA k :
        [ix |-> c.ix, iy |-> c.iy, dx |-> k \div ny, dy |-> k % ny,
         vid |-> (c.ix * (1 + g) + (k \div ny)) * Fine(c, 2)
                 + c.iy * (1 + g) + (k % ny),
         n |-> (k \div ny) * (2 + g) + (k % ny)])

\* the slots bi (0..15) of sample q whose weight is not zero
BindSlots(c, q) ==
  LET w == WeightRow(c.skinsubgrid, BindClass(c.count[1], c.ix),
                     BindClass(c.count[2], c.iy), q.n)
  IN  {bi \in 0..15 : w[bi + 1] # 0}

\* what the cell pushes onto vertid[b]: vid and vid + NN per nonzero slot;
\* hits[k] are the nonzero slots of samples[k]
BindPushes(c, samples, hits, b) ==
  Flatten(Loop(Len(samples), LAMBDA k :
    Flatten(Loop(16, LAMBDA bi :
      IF bi \in hits[k + 1] /\ BoneId(c, bi) = b
      THEN <<samples[k + 1].vid, samples[k + 1].vid + Fine(c, 1) * Fine(c, 2)>>
      ELSE <<>>))))

\* the skin after the cell: writes outside vertid are not part of it
BindApply(c, sk, samples, hits) ==
  [sk EXCEPT
     !.vertid = [b \in DOMAIN @ |-> @[b] \o BindPushes(c, samples, hits, b)],
     !.visited = @ \o samples,
     !.slots = @ \cup UNION {{BoneId(c, bi) : bi \in hits[k]} : k \in DOMAIN hits}]

\* one pass of the body of "for ix, for iy".  An index outside vertid is
\* undefined behaviour: the process ends, or the write lands outside the
\* skin and the loop goes on.
BindCell ==
  /\ pc = "bind"
  /\ \E samples \in {BindSamples(comp)} :
       \E hits \in {[k \in DOMAIN samples |-> BindSlots(comp, samples[k])]} :
         \E bound \in {BindApply(comp, model, samples, hits)} :
           \/ /\ model' = bound
              /\ pc' = IF comp.ix = comp.count[1] - 2 /\ comp.iy = comp.count[2] - 2
                       THEN "bound" ELSE "bind"
              /\ comp' = IF comp.iy = comp.count[2] - 2
                         THEN [comp EXCEPT !.ix = @ + 1, !.iy = 0]
                         ELSE [comp EXCEPT !.iy = @ + 1]
           \/ /\ ~(bound.slots \subseteq DOMAIN model.vertid)
              /\ model' = [model EXCEPT !.slots = bound.slots]
              /\ pc' = "fault"
              /\ comp' = comp
  /\ UNCHANGED <<res, error, warning>>

SpecBind == InitBind /\ [][BindCell]_vars

\* C27: with subdivision s the refined mesh has C0*C1 vertices per layer,
\* Ci = count[i] + (count[i]-1)*s, and the binding loop visits every vertex
\* id of [0, C0*C1) exactly once over all (cell, dx, dy): a vertex on a
\* border between cells is bound through one cell, and only the last cell
\* along an axis takes its final row or column.
C27_EachVertexOnce ==
  pc = "bound" =>
    LET s == comp.skinsubgrid
        C0 == comp.count[1] + (comp.count[1] - 1) * s
        C1 == comp.count[2] + (comp.count[2] - 1) * s
    IN  /\ model.nvert = 2 * C0 * C1
        /\ \A v \in 0..(C0 * C1 - 1) :
             Cardinality({k \in 1..Len(model.visited) : model.visited[k].vid = v}) = 1
        /\ \A k \in 1..Len(model.visited) :
             LET q == model.visited[k]
             IN  /\ q.vid \in 0..(C0 * C1 - 1)
                 /\ q.dx = 1 + s => q.ix = comp.count[1] - 2
                 /\ q.dy = 1 + s => q.iy = comp.count[2] - 2

\* a 3 x 4 grid with s = 1: 5 x 7 vertices per layer, 6 cells
C27_Witness ==
  /\ pc = "bound" /\ comp.type = "grid" /\ comp.count = <<3, 4>>
  /\ comp.skinsubgrid = 1
  /\ Len(model.visited) = 35
  /\ \E k \in 1..35 : model.visited[k].dx = 2 /\ model.visited[k].dy = 2

\* C29: for every lattice routed to MakeSkin2Subgrid, every bone slot with
\* a nonzero weight has its index (ix+dx)*count[1] + (iy+dy) inside
\* [0, count[0]*count[1]): no access to vertid or vertweight is out of
\* bounds.
C29_SlotsInRange ==
  pc \in {"bind", "bound", "fault"} =>
    /\ pc # "fault"
    /\ model.slots \subseteq 0..(comp.count[1] * comp.count[2] - 1)

\* ---------------------------------------------------------------------
\* Failure returns

\* C30: every failure return of Make and of the builder it dispatches to,
\* other than MakeParticle's "Face attribute already exists in plugin",
\* happens before any body, geom, site, joint, tendon, equality, exclude,
\* text or skin has been added: the model's entities are those before the
\* call.
C30_FailureAddsNothing ==
  (Made /\ res = FALSE /\ error # Err.PluginFace) => NothingAdded

\* the failure returns of the builders are reached, each with nothing added
C30_Witness ==
  /\ Made /\ res = FALSE /\ NothingAdded
  /\ error = Err.CableGeom
  /\ comp.type = "cable" /\ comp.dim = 1

====
